---- MODULE Spec2Model ----
(***************************************************************************)
(* A model of the parsita parser-combinator engine                         *)
(* (src/src/parsita/parsers/*.py, src/src/parsita/state/*.py).             *)
(*                                                                         *)
(* The recursive-descent evaluator is modelled as an explicit-stack        *)
(* machine.  A run is one call of Parser.parse: it owns a State (farthest, *)
(* expected, memo), a call stack of _consume activations and the status    *)
(* returned by the last finished consume.  Every parser class has one      *)
(* action that executes the next segment of its _consume method: from its  *)
(* entry, or from the return of a child's consume, up to the next child    *)
(* consume, a return or a raise.  Parser objects are the entries of the    *)
(* table Grammar; an entry's name is the object's identity (the memo key). *)
(* A Reader over a run's source is its position.  Values are modelled by   *)
(* their repr, a sequence of tokens.                                       *)
(***************************************************************************)
EXTENDS Integers, Sequences, FiniteSets, TLC

VARIABLES
    objects,   \* the parser objects, by name: their class and attributes
    src,       \* src[r]: the source string of run r, a sequence of characters
    root,      \* root[r]: the parser whose parse method run r calls
    memoized,  \* memoized[r]: FALSE replaces consume by a direct _consume call
    phase,     \* phase[r]: "ready", "running" or "done"
    state,     \* state[r]: the State object of the run
    stack,     \* stack[r]: the activations of _consume, innermost last
    ret,       \* ret[r]: the status returned by the last finished consume
    exc,       \* exc[r]: the exception in flight, or NoExc
    result,    \* result[r]: what parse returned or raised
    message,   \* message[r]: str() of the ParseError that parse returned
    threads,   \* the runs that are threads: their steps interleave
    options,   \* the module options: whitespace, handle_literal, parse_method
    dicts,     \* the ParsersDict of every class body being executed, innermost last
    closed,    \* history: the class statements that have ended, in order
    made,      \* history: the literals constructed since Init, in order, each with
               \* options.whitespace and the innermost class body of that moment
    regs,      \* history: the register_failure calls of the run, in order
    calls,     \* history: the consume calls of the run, in order
    last       \* history: the last consume call or return of the run

vars == <<objects, threads, options, dicts, closed, made, message, src, root, memoized, phase, state, stack, ret, exc, result, regs, calls, last>>

----------------------------------------------------------------------------
(* Bounds *)

MaxLen == 3        \* longest source
MaxDepth == 9      \* deepest call stack (Python's recursion limit)

Chars == {"a", "b"}

Sources == UNION {[1..n -> Chars] : n \in 0..MaxLen}

----------------------------------------------------------------------------
(* Values, by their repr *)

RECURSIVE Join(_)
Join(items) ==
    IF items = <<>> THEN <<>>
    ELSE IF Len(items) = 1 THEN items[1]
    ELSE items[1] \o <<",">> \o Join(Tail(items))

StrVal(s) == <<"'">> \o s \o <<"'">>
ListVal(items) == <<"[">> \o Join(items) \o <<"]">>
NoneVal == <<"None">>
Converted(v) == <<"f(">> \o v \o <<")">>

----------------------------------------------------------------------------
(* state/_state.py *)

NoReader == -1

\* Continue(remainder, value), and None: the two statuses a consume returns
Continue(remainder, value) == [ok |-> TRUE, rem |-> remainder, value |-> value]
None == [ok |-> FALSE, rem |-> 0, value |-> <<>>]

\* State.__init__
NewState == [farthest |-> NoReader, expected |-> <<>>, memo |-> <<>>]

\* register_failure with a tie treated as a farther failure
register_failure_tie_replaces(st, expected, position) ==
    IF st.farthest = NoReader \/ st.farthest <= position
    THEN [st EXCEPT !.expected = <<expected>>, !.farthest = position]
    ELSE st

\* State.register_failure
register_failure(st, expected, position) ==
    IF st.farthest = NoReader \/ st.farthest < position
    THEN [st EXCEPT !.expected = <<expected>>, !.farthest = position]
    ELSE IF st.farthest = position
         THEN [st EXCEPT !.expected = Append(@, expected)]
         ELSE st

\* a sequence of register_failure calls, each <<expected, position>>
RECURSIVE RegisterAll(_, _)
RegisterAll(st, fails) ==
    IF fails = <<>> THEN st
    ELSE RegisterAll(register_failure(st, fails[1][1], fails[1][2]), Tail(fails))

----------------------------------------------------------------------------
(* options.py: the global mutable state, as the module sets it when loaded *)

NoWhitespace == ""   \* whitespace = None

DefaultOptions ==
    [whitespace |-> NoWhitespace,
     handle_literal |-> "default_handle_literal",
     parse_method |-> "default_parse_method"]

----------------------------------------------------------------------------
(* Parser objects.  One record shape serves every class; a class reads the *)
(* fields its constructor sets.                                            *)

NoMax == -1     \* max = None

Parser(kind) ==
    [kind |-> kind, protected |-> FALSE, pattern |-> <<>>, text |-> "",
     value |-> <<>>, parsers |-> <<>>, min |-> 0, max |-> NoMax, accept |-> {},
     whitespace |-> NoWhitespace]

\* LiteralParser(pattern, whitespace); text is repr(pattern)
LiteralParser(pattern, text, whitespace) ==
    [Parser("lit") EXCEPT !.pattern = pattern, !.text = text, !.whitespace = whitespace]
\* RegexParser(pattern, whitespace) for a pattern that is one character class
\* repeated min times or more: [class]+ for min = 1, [class]* for min = 0;
\* text is the pattern as register_failure gets it
RegexParser(class, min, text, whitespace) ==
    [Parser("reg") EXCEPT !.accept = class, !.min = min, !.text = text,
                          !.whitespace = whitespace]
\* lit(pattern) and reg(r'[class]+') while options.whitespace is None
lit(pattern, text) == LiteralParser(pattern, text, NoWhitespace)
reg(class, text) == RegexParser(class, 1, text, NoWhitespace)
\* EndOfSourceParser(), AnyParser(), SuccessParser(value), FailureParser(expected)
EndOfSourceParser == Parser("eof")
AnyParser == Parser("any")
success(value) == [Parser("success") EXCEPT !.value = value]
failure(expected) == [Parser("failure") EXCEPT !.text = expected]
\* OptionalParser(parser)
opt(parser) == [Parser("opt") EXCEPT !.parsers = <<parser>>]
\* FirstAlternativeParser(*parsers), LongestAlternativeParser(*parsers)
first(parsers) == [Parser("first") EXCEPT !.parsers = parsers]
longest(parsers) == [Parser("longest") EXCEPT !.parsers = parsers]
\* SequentialParser(*parsers), DiscardLeftParser(left, right), DiscardRightParser(left, right)
SequentialParser(parsers) == [Parser("seq") EXCEPT !.parsers = parsers]
DiscardLeftParser(left, right) == [Parser("dl") EXCEPT !.parsers = <<left, right>>]
DiscardRightParser(left, right) == [Parser("dr") EXCEPT !.parsers = <<left, right>>]
\* RepeatedParser(parser, min, max), RepeatedOnceParser(parser)
rep(parser, min, max) == [Parser("rep") EXCEPT !.parsers = <<parser>>, !.min = min, !.max = max]
rep1(parser) == [Parser("rep1") EXCEPT !.parsers = <<parser>>]
\* RepeatedSeparatedParser(parser, separator, min, max), RepeatedOnceSeparatedParser(parser, separator)
repsep(parser, separator, min, max) ==
    [Parser("repsep") EXCEPT !.parsers = <<parser, separator>>, !.min = min, !.max = max]
rep1sep(parser, separator) == [Parser("rep1sep") EXCEPT !.parsers = <<parser, separator>>]
\* PredicateParser(parser, predicate, description): predicate(v) is v \in accept
pred(parser, accept, description) ==
    [Parser("pred") EXCEPT !.parsers = <<parser>>, !.accept = accept, !.text = description]
\* UntilParser(parser)
until(parser) == [Parser("until") EXCEPT !.parsers = <<parser>>]
\* ConversionParser(parser, converter): converter is Converted
ConversionParser(parser) == [Parser("conv") EXCEPT !.parsers = <<parser>>]
\* TransformationParser(parser, transformer): transformer(v) is the parser
\* then if v \in accept, and the parser else otherwise
TransformationParser(parser, accept, then, else) ==
    [Parser("trans") EXCEPT !.parsers = <<parser, then, else>>, !.accept = accept]

\* TransformationParser(parser, transformer) with the transformer
\* lambda v: lit(pattern), which constructs its parser when it is called
TransformationToLiteral(parser, pattern, text) ==
    [Parser("trans") EXCEPT !.parsers = <<parser>>, !.pattern = pattern, !.text = text]
\* ForwardDeclaration(): parsers is <<>> while _definition is None, and
\* <<definition>> after
ForwardDeclaration == Parser("fwd")

\* ParsersDict.__setitem__: the parser assigned to a name of a grammar
Named(parser) == [parser EXCEPT !.protected = TRUE]

\* x & y that flattens a named sequence as well
And_ignores_protected(G, x, y) ==
    IF G[x].kind = "seq"
    THEN SequentialParser(Append(G[x].parsers, y))
    ELSE SequentialParser(<<x, y>>)

\* x | y as a first-match alternative
Or_first(G, x, y) ==
    first((IF G[x].kind = "first" /\ ~G[x].protected THEN G[x].parsers ELSE <<x>>)
          \o (IF G[y].kind = "first" /\ ~G[y].protected THEN G[y].parsers ELSE <<y>>))

\* Parser.__or__: x | y, for the parser objects x and y of the table G
Or(G, x, y) ==
    longest((IF G[x].kind = "longest" /\ ~G[x].protected THEN G[x].parsers ELSE <<x>>)
            \o (IF G[y].kind = "longest" /\ ~G[y].protected THEN G[y].parsers ELSE <<y>>))

\* Parser.__and__: x & y
And(G, x, y) ==
    IF G[x].kind = "seq" /\ ~G[x].protected
    THEN SequentialParser(Append(G[x].parsers, y))
    ELSE SequentialParser(<<x, y>>)

----------------------------------------------------------------------------
(* The grammar: the parser objects the runs draw their roots from.  A field *)
(* name is the identity of one parser object; two entries built alike are   *)
(* two objects.  A forward declaration delegates every attribute to its     *)
(* definition (ForwardDeclaration.__getattribute__), so a reference to one  *)
(* is a reference to the entry that defines it: expr, lrec, ma and mb are   *)
(* left-recursive through such references.                                  *)

Digits == {"0", "1", "2", "3", "4", "5", "6", "7", "8", "9"}

Terminals ==
    [a    |-> lit(<<"a">>, "'a'"),
     a_plus |-> reg({"a"}, "r'a+'"),
     digits |-> reg(Digits, "r'\\d+'"),
     comma  |-> lit(<<",">>, "','"),
     spaces |-> RegexParser({" "}, 0, "r'[ ]*'", NoWhitespace),
     hello  |-> LiteralParser(<<"H", "e", "l", "l", "o">>, "'Hello'", "spaces"),
     world  |-> LiteralParser(<<"w", "o", "r", "l", "d">>, "'world'", "spaces"),
     ws_a   |-> LiteralParser(<<"a">>, "'a'", "spaces"),
     ws_b   |-> LiteralParser(<<"b">>, "'b'", "spaces"),
     ws_a_plus |-> RegexParser({"a"}, 1, "r'a+'", "spaces"),
     b    |-> lit(<<"b">>, "'b'"),
     ab   |-> lit(<<"a", "b">>, "'ab'"),
     a2   |-> lit(<<"a">>, "'a'"),
     eof  |-> EndOfSourceParser,
     any1 |-> AnyParser,
     ok   |-> success(StrVal(<<"x">>)),
     fail |-> failure("nope")]

Level1 ==
    Terminals @@
    [fa        |-> ConversionParser("a2"),
     number    |-> Named(ConversionParser("digits")),
     a_plus_or_ab |-> Or(Terminals, "a_plus", "ab"),
     opt_a     |-> opt("a"),
     opt_b     |-> opt("b"),
     a_or_b    |-> Or(Terminals, "a", "b"),
     b_or_ab   |-> Or(Terminals, "b", "ab"),
     seq_a_b   |-> And(Terminals, "a", "b"),
     seq_b_a   |-> And(Terminals, "b", "a"),
     hello_world |-> And(Terminals, "hello", "world"),
     ws_a_b    |-> And(Terminals, "ws_a", "ws_b"),
     a_ws_b    |-> And(Terminals, "a", "ws_b"),
     b_ws_a_plus |-> And(Terminals, "b", "ws_a_plus"),
     heredoc   |-> TransformationToLiteral("ws_a_plus", <<"b">>, "'b'"),
     named_a_b |-> Named(And(Terminals, "a", "b")),
     dl_a_b    |-> DiscardLeftParser("a", "b"),
     dr_a_b    |-> DiscardRightParser("a", "b"),
     dl_a2_ab  |-> DiscardLeftParser("a2", "ab"),
     rep_a     |-> rep("a", 0, NoMax),
     rep_a_min2 |-> rep("a", 2, NoMax),
     rep_a_max1 |-> rep("a", 0, 1),
     rep_a_max0 |-> rep("a", 0, 0),
     rep_a_min1_max0 |-> rep("a", 1, 0),
     rep_a_min1_max2 |-> rep("a", 1, 2),
     rep_ok    |-> rep("ok", 0, NoMax),
     rep1_a    |-> rep1("a"),
     rep_a_min1 |-> rep("a", 1, NoMax),
     rep1_seq  |-> rep1("seq_a_b"),
     rep_seq_min1 |-> rep("seq_a_b", 1, NoMax),
     repsep_a_b |-> repsep("a", "b", 0, NoMax),
     repsep_a_b_min2 |-> repsep("a", "b", 2, NoMax),
     repsep_a_b_max0 |-> repsep("a", "b", 0, 0),
     repsep_a_b_max1 |-> repsep("a", "b", 0, 1),
     repsep_a_b_min1_max2 |-> repsep("a", "b", 1, 2),
     rep1sep_a_b |-> rep1sep("a", "b"),
     pred_any  |-> pred("any1", {StrVal(<<"a">>)}, "an a"),
     until_b   |-> until("b"),
     until_eof |-> until("eof"),
     trans_any |-> TransformationParser("any1", {StrVal(<<"a">>)}, "b", "a"),
     first_a_ab  |-> first(<<"a", "ab">>),
     first_ab_a  |-> first(<<"ab", "a">>),
     first_fail_a |-> first(<<"fail", "a">>),
     first3      |-> first(<<"a", "b", "ab">>),
     longest_a_ab |-> longest(<<"a", "ab">>),
     longest_ab_a |-> longest(<<"ab", "a">>),
     longest_a_a2 |-> longest(<<"a", "a2">>),
     longest3     |-> longest(<<"a", "b", "ab">>),
     longest_dup  |-> longest(<<"a", "b", "a2">>),
     lrec      |-> SequentialParser(<<"lrec", "a">>),
     expr_a    |-> SequentialParser(<<"expr", "a">>),
     ma        |-> first(<<"mb", "a">>),
     mb        |-> SequentialParser(<<"ma", "b">>)]

Level2 ==
    Level1 @@
    [or3_left  |-> Or(Level1, "a_or_b", "ab"),
     or3_right |-> Or(Level1, "a", "b_or_ab"),
     ab_or_fa  |-> Or(Level1, "ab", "fa"),
     fa_or_a   |-> Or(Level1, "fa", "a"),
     longest3f |-> longest(<<"ab", "fa", "a">>),
     seq3      |-> And(Level1, "seq_a_b", "a"),
     seq3_right |-> And(Level1, "a", "seq_b_a"),
     named_left  |-> And(Level1, "named_a_b", "a"),
     named_right |-> And(Level1, "a", "named_a_b"),
     expr      |-> Or(Level1, "expr_a", "a"),
     dup       |-> Or(Level1, "dl_a_b", "dl_a2_ab"),
     longest_a_fa |-> longest(<<"a", "fa">>),
     longest_fa_a |-> longest(<<"fa", "a">>),
     first_fa_a   |-> first(<<"fa", "a">>),
     first_seq_a  |-> first(<<"seq_a_b", "a">>),
     first_mix    |-> first(<<"fail", "seq_a_b", "b", "a2">>),
     longest_opt  |-> longest(<<"opt_a", "opt_b", "ok">>),
     rep_a_or_b   |-> rep("a_or_b", 0, NoMax),
     rep_opt_a    |-> rep("opt_a", 0, NoMax),
     rep1_opt_a   |-> rep1("opt_a"),
     rep_opt_a_min1 |-> rep("opt_a", 1, NoMax),
     rep1_a_or_b  |-> rep1("a_or_b"),
     rep_a_or_b_min1 |-> rep("a_or_b", 1, NoMax),
     dl_b_rep1    |-> DiscardLeftParser("b", "rep1_a"),
     dl_b_rep     |-> DiscardLeftParser("b", "rep_a_min1"),
     dl_a_rep1opt |-> DiscardLeftParser("a", "rep1_opt_a"),
     dl_a_repopt  |-> DiscardLeftParser("a", "rep_opt_a_min1"),
     repsep_opt   |-> repsep("opt_a", "opt_b", 0, NoMax),
     rep1sep_opt  |-> rep1sep("opt_a", "opt_b"),
     rep1sep_number |-> rep1sep("number", "comma"),
     until_seq    |-> until("seq_a_b")]

\* every combinator around a repetition that stalls
Grammar ==
    Level2 @@
    [or3f_left    |-> Or(Level2, "ab_or_fa", "a"),
     or3f_right   |-> Or(Level2, "ab", "fa_or_a"),
     opt_bad      |-> opt("rep_opt_a"),
     first_bad_a  |-> first(<<"rep_opt_a", "a">>),
     first_b_bad  |-> first(<<"b", "rep1_opt_a">>),
     longest_a_bad |-> longest(<<"a", "rep_opt_a">>),
     longest_bad_a |-> longest(<<"repsep_opt", "a">>),
     seq_a_bad    |-> SequentialParser(<<"a", "rep_opt_a">>),
     dl_a_bad     |-> DiscardLeftParser("a", "rep1sep_opt"),
     dr_bad_a     |-> DiscardRightParser("rep_opt_a", "a"),
     rep_bad      |-> rep("rep_opt_a", 0, NoMax),
     rep1_bad     |-> rep1("rep1_opt_a"),
     repsep_a_bad |-> repsep("a", "rep_opt_a", 0, NoMax),
     rep1sep_a_bad |-> rep1sep("a", "rep_opt_a"),
     until_bad    |-> until("rep_opt_a"),
     pred_bad     |-> pred("rep_opt_a", {}, "never"),
     conv_bad     |-> ConversionParser("rep_opt_a"),
     trans_bad    |-> TransformationParser("any1", {StrVal(<<"a">>)}, "rep_opt_a", "a")]

Roots == DOMAIN Grammar

\* the identities of the parser objects constructed after the grammar, in the
\* order of their construction
Made ==
    <<"made1", "made2", "made3", "made4", "made5", "made6", "made7", "made8", "made9",
      "made10", "made11", "made12">>
MaxMade == 3       \* most parser objects constructed after the grammar

Constructed == {Made[i] : i \in 1..Len(Made)} \cap DOMAIN objects
NextId == Made[Cardinality(Constructed) + 1]

\* the class body that is executing, if any, and the whitespace its
\* __prepare__ installed
Open == dicts # <<>>
Scope == IF Open THEN dicts[Len(dicts)].installed ELSE NoWhitespace

\* parse without the end of source
ParserOf_without_eof(r, id) ==
    IF id = "parse" THEN DiscardRightParser(root[r], "ok") ELSE objects[id]

\* Parser.parse builds self << eof anew at every call: the object "parse"
ParserOf(r, id) ==
    IF id = "parse" THEN DiscardRightParser(root[r], "eof") ELSE objects[id]

----------------------------------------------------------------------------
(* The call stack.  An activation of P._consume(state, reader) holds the   *)
(* parser id, the position pos of its reader argument, the place pc where  *)
(* it continues, and the method's local variables: rem (remainder, or the  *)
(* reassigned reader), out (output), k (the index of the for loop) and sv  *)
(* (a status kept across a call: longest_success, status1).                *)

NoExc == [raised |-> FALSE, parser |-> "", context |-> 0]
NoResult == [kind |-> "none", value |-> <<>>, farthest |-> NoReader, expected |-> <<>>,
             parser |-> "", context |-> 0]

Frame(id, position) ==
    [id |-> id, pos |-> position, pc |-> "start", rem |-> position, out |-> <<>>,
     k |-> 1, sv |-> None]

Top(r) == stack[r][Len(stack[r])]
Pop(s) == SubSeq(s, 1, Len(s) - 1)
ReplaceTop(s, f) == Append(Pop(s), f)

Runs == DOMAIN phase

\* the runs of one behaviour execute one after the other, but for the
\* threads, which take their steps in any order
Sched(r) == r \in threads \/ \A q \in Runs : q < r => phase[q] = "done"

\* run r is about to execute a segment of the _consume of a parser of this kind
At(r, kind) ==
    /\ phase[r] = "running"
    /\ Sched(r)
    /\ ~exc[r].raised
    /\ stack[r] # <<>>
    /\ ParserOf(r, Top(r).id).kind = kind

Fixed == UNCHANGED <<objects, threads, options, dicts, closed, made, message, src, root, memoized>>

\* consume that never looks the key up in the memo
Consume_without_lookup(r, f, c, position, fails) ==
    LET st == RegisterAll(state[r], fails)
        key == <<c, position>>
        call == [by |-> <<f.id, f.pos>>, id |-> c, pos |-> position]
    IN  /\ regs' = [regs EXCEPT ![r] = @ \o fails]
        /\ calls' = [calls EXCEPT ![r] = Append(@, call)]
        /\ IF Len(stack[r]) >= MaxDepth
           THEN /\ state' = [state EXCEPT ![r] = st]
                /\ stack' = [stack EXCEPT ![r] = <<>>]
                /\ phase' = [phase EXCEPT ![r] = "done"]
                /\ result' = [result EXCEPT ![r] = [NoResult EXCEPT !.kind = "StackOverflow"]]
                /\ last' = [last EXCEPT ![r] = [ev |-> "overflow", id |-> c, pos |-> position,
                                               status |-> None]]
                /\ UNCHANGED <<ret, exc>>
           ELSE /\ state' = [state EXCEPT ![r] =
                                IF memoized[r] THEN [st EXCEPT !.memo = (key :> None) @@ @]
                                ELSE st]
                /\ stack' = [stack EXCEPT ![r] = Append(ReplaceTop(@, f), Frame(c, position))]
                /\ last' = [last EXCEPT ![r] = [ev |-> "call", id |-> c, pos |-> position,
                                               status |-> None]]
                /\ UNCHANGED <<phase, ret, exc, result>>
        /\ Fixed

\* consume without its first write of the memo, the None before _consume
Consume_without_marker(r, f, c, position, fails) ==
    LET st == RegisterAll(state[r], fails)
        key == <<c, position>>
        call == [by |-> <<f.id, f.pos>>, id |-> c, pos |-> position]
    IN  /\ regs' = [regs EXCEPT ![r] = @ \o fails]
        /\ calls' = [calls EXCEPT ![r] = Append(@, call)]
        /\ IF memoized[r] /\ key \in DOMAIN st.memo
           THEN /\ state' = [state EXCEPT ![r] = st]
                /\ stack' = [stack EXCEPT ![r] = ReplaceTop(@, f)]
                /\ ret' = [ret EXCEPT ![r] = st.memo[key]]
                /\ last' = [last EXCEPT ![r] = [ev |-> "hit", id |-> c, pos |-> position,
                                               status |-> st.memo[key]]]
                /\ UNCHANGED <<phase, exc, result>>
           ELSE IF Len(stack[r]) >= MaxDepth
           THEN /\ state' = [state EXCEPT ![r] = st]
                /\ stack' = [stack EXCEPT ![r] = <<>>]
                /\ phase' = [phase EXCEPT ![r] = "done"]
                /\ result' = [result EXCEPT ![r] = [NoResult EXCEPT !.kind = "StackOverflow"]]
                /\ last' = [last EXCEPT ![r] = [ev |-> "overflow", id |-> c, pos |-> position,
                                               status |-> None]]
                /\ UNCHANGED <<ret, exc>>
           ELSE /\ state' = [state EXCEPT ![r] = st]
                /\ stack' = [stack EXCEPT ![r] = Append(ReplaceTop(@, f), Frame(c, position))]
                /\ last' = [last EXCEPT ![r] = [ev |-> "call", id |-> c, pos |-> position,
                                               status |-> None]]
                /\ UNCHANGED <<phase, ret, exc, result>>
        /\ Fixed

\* Parser.consume, called by the top activation, which continues as f:
\* c.consume(state, reader at position), after the register_failure calls fails
Consume(r, f, c, position, fails) ==
    LET st == RegisterAll(state[r], fails)
        key == <<c, position>>
        call == [by |-> <<f.id, f.pos>>, id |-> c, pos |-> position]
    IN  /\ regs' = [regs EXCEPT ![r] = @ \o fails]
        /\ calls' = [calls EXCEPT ![r] = Append(@, call)]
        /\ IF memoized[r] /\ key \in DOMAIN st.memo
           THEN \* value is not missing: return value
                /\ state' = [state EXCEPT ![r] = st]
                /\ stack' = [stack EXCEPT ![r] = ReplaceTop(@, f)]
                /\ ret' = [ret EXCEPT ![r] = st.memo[key]]
                /\ last' = [last EXCEPT ![r] = [ev |-> "hit", id |-> c, pos |-> position,
                                               status |-> st.memo[key]]]
                /\ UNCHANGED <<phase, exc, result>>
           ELSE IF Len(stack[r]) >= MaxDepth
           THEN \* the interpreter's recursion limit
                /\ state' = [state EXCEPT ![r] = st]
                /\ stack' = [stack EXCEPT ![r] = <<>>]
                /\ phase' = [phase EXCEPT ![r] = "done"]
                /\ result' = [result EXCEPT ![r] = [NoResult EXCEPT !.kind = "StackOverflow"]]
                /\ last' = [last EXCEPT ![r] = [ev |-> "overflow", id |-> c, pos |-> position,
                                               status |-> None]]
                /\ UNCHANGED <<ret, exc>>
           ELSE \* state.memo[key] = None; result = self._consume(state, reader)
                /\ state' = [state EXCEPT ![r] =
                                IF memoized[r] THEN [st EXCEPT !.memo = (key :> None) @@ @]
                                ELSE st]
                /\ stack' = [stack EXCEPT ![r] = Append(ReplaceTop(@, f), Frame(c, position))]
                /\ last' = [last EXCEPT ![r] = [ev |-> "call", id |-> c, pos |-> position,
                                               status |-> None]]
                /\ UNCHANGED <<phase, ret, exc, result>>
        /\ Fixed

\* consume without its second write of the memo
Return_without_store(r, status, fails) ==
    LET st == RegisterAll(state[r], fails)
        f == Top(r)
    IN  /\ regs' = [regs EXCEPT ![r] = @ \o fails]
        /\ state' = [state EXCEPT ![r] = st]
        /\ stack' = [stack EXCEPT ![r] = Pop(@)]
        /\ ret' = [ret EXCEPT ![r] = status]
        /\ last' = [last EXCEPT ![r] = [ev |-> "return", id |-> f.id, pos |-> f.pos,
                                       status |-> status]]
        /\ UNCHANGED <<phase, exc, result, calls>>
        /\ Fixed

\* consume that stores the status in a memo that every parse shares
Return_shared_memo(r, status, fails) ==
    LET st == RegisterAll(state[r], fails)
        f == Top(r)
    IN  /\ regs' = [regs EXCEPT ![r] = @ \o fails]
        /\ state' = [q \in Runs |->
                        LET sq == IF q = r THEN st ELSE state[q]
                        IN  IF memoized[r] THEN [sq EXCEPT !.memo = (<<f.id, f.pos>> :> status) @@ @]
                            ELSE sq]
        /\ stack' = [stack EXCEPT ![r] = Pop(@)]
        /\ ret' = [ret EXCEPT ![r] = status]
        /\ last' = [last EXCEPT ![r] = [ev |-> "return", id |-> f.id, pos |-> f.pos,
                                       status |-> status]]
        /\ UNCHANGED <<phase, exc, result, calls>>
        /\ Fixed

\* the top activation returns status, after the register_failure calls fails:
\* consume stores the status in the memo and returns it
Return(r, status, fails) ==
    LET st == RegisterAll(state[r], fails)
        f == Top(r)
    IN  /\ regs' = [regs EXCEPT ![r] = @ \o fails]
        /\ state' = [state EXCEPT ![r] =
                        IF memoized[r] THEN [st EXCEPT !.memo = (<<f.id, f.pos>> :> status) @@ @]
                        ELSE st]
        /\ stack' = [stack EXCEPT ![r] = Pop(@)]
        /\ ret' = [ret EXCEPT ![r] = status]
        /\ last' = [last EXCEPT ![r] = [ev |-> "return", id |-> f.id, pos |-> f.pos,
                                       status |-> status]]
        /\ UNCHANGED <<phase, exc, result, calls>>
        /\ Fixed

\* raise RecursionError(self, reader)
Raise_with_reader(r, parser, context) ==
    /\ exc' = [exc EXCEPT ![r] = [raised |-> TRUE, parser |-> parser, context |-> Top(r).pos]]
    /\ last' = [last EXCEPT ![r] = [ev |-> "raise", id |-> parser, pos |-> Top(r).pos,
                                   status |-> None]]
    /\ UNCHANGED <<phase, state, stack, ret, result, regs, calls>>
    /\ Fixed

\* raise RecursionError(self, remainder)
Raise(r, parser, context) ==
    /\ exc' = [exc EXCEPT ![r] = [raised |-> TRUE, parser |-> parser, context |-> context]]
    /\ last' = [last EXCEPT ![r] = [ev |-> "raise", id |-> parser, pos |-> context,
                                   status |-> None]]
    /\ UNCHANGED <<phase, state, stack, ret, result, regs, calls>>
    /\ Fixed

----------------------------------------------------------------------------
(* Readers: state/_reader.py *)

\* Reader.finished
finished(r, position) == position >= Len(src[r])

\* str.startswith(pattern, position) on the source of a StringReader
startswith(source, pattern, position) ==
    /\ position + Len(pattern) <= Len(source)
    /\ SubSeq(source, position + 1, position + Len(pattern)) = pattern

\* an error message, by its parts: "Expected {expected} but found {found}",
\* and if located "\nLine {line_index}, character {character_index}\n\n{line}{pointer}"
NoMessage ==
    [expected |-> <<>>, found |-> <<>>, located |-> FALSE, line_index |-> 0,
     character_index |-> 0, line |-> <<>>, pointer |-> <<>>]

----------------------------------------------------------------------------
(* Primitives *)

\* a literal that registers its failure at the reader it was given
LiteralConsume_registers_at_reader(r) ==
    /\ At(r, "lit")
    /\ LET f == Top(r)
           p == ParserOf(r, f.id)
           reader == IF f.pc = "start" THEN f.pos ELSE ret[r].rem
       IN  CASE f.pc = "start" /\ p.whitespace # NoWhitespace ->
                    Consume(r, [f EXCEPT !.pc = "leading"], p.whitespace, f.pos, <<>>)
             [] f.pc = "leading" \/ (f.pc = "start" /\ p.whitespace = NoWhitespace) ->
                    IF startswith(src[r], p.pattern, reader)
                    THEN IF p.whitespace # NoWhitespace
                         THEN Consume(r, [f EXCEPT !.pc = "trailing"], p.whitespace,
                                      reader + Len(p.pattern), <<>>)
                         ELSE Return(r, Continue(reader + Len(p.pattern), StrVal(p.pattern)), <<>>)
                    ELSE Return(r, None, <<<<p.text, f.pos>>>>)
             [] f.pc = "trailing" ->
                    Return(r, Continue(ret[r].rem, StrVal(p.pattern)), <<>>)

\* LiteralParser._consume, on a StringReader, with a whitespace parser that
\* does not fail.  reader is the reassigned local variable of the method.
LiteralConsume(r) ==
    /\ At(r, "lit")
    /\ LET f == Top(r)
           p == ParserOf(r, f.id)
           reader == IF f.pc = "start" THEN f.pos ELSE ret[r].rem
       IN  CASE f.pc = "start" /\ p.whitespace # NoWhitespace ->
                    Consume(r, [f EXCEPT !.pc = "leading"], p.whitespace, f.pos, <<>>)
             [] f.pc = "leading" \/ (f.pc = "start" /\ p.whitespace = NoWhitespace) ->
                    IF startswith(src[r], p.pattern, reader)
                    THEN IF p.whitespace # NoWhitespace
                         THEN Consume(r, [f EXCEPT !.pc = "trailing"], p.whitespace,
                                      reader + Len(p.pattern), <<>>)
                         ELSE Return(r, Continue(reader + Len(p.pattern), StrVal(p.pattern)), <<>>)
                    ELSE Return(r, None, <<<<p.text, reader>>>>)
             [] f.pc = "trailing" ->
                    Return(r, Continue(ret[r].rem, StrVal(p.pattern)), <<>>)

\* the end of the match of [class]+ at a position of the source: re.match is
\* greedy, and the match is empty when the end is the position itself
RECURSIVE MatchEnd(_, _, _)
MatchEnd(source, class, position) ==
    IF position < Len(source) /\ source[position + 1] \in class
    THEN MatchEnd(source, class, position + 1)
    ELSE position

\* RegexParser._consume, with a whitespace parser that does not fail.  rem
\* holds where the match starts while the trailing whitespace is consumed.
RegexConsume(r) ==
    /\ At(r, "reg")
    /\ LET f == Top(r)
           p == ParserOf(r, f.id)
           reader == IF f.pc = "start" THEN f.pos ELSE ret[r].rem
           end == MatchEnd(src[r], p.accept, reader)
       IN  CASE f.pc = "start" /\ p.whitespace # NoWhitespace ->
                    Consume(r, [f EXCEPT !.pc = "leading"], p.whitespace, f.pos, <<>>)
             [] f.pc = "leading" \/ (f.pc = "start" /\ p.whitespace = NoWhitespace) ->
                    IF end - reader < p.min
                    THEN Return(r, None, <<<<p.text, reader>>>>)
                    ELSE IF p.whitespace # NoWhitespace
                         THEN Consume(r, [f EXCEPT !.pc = "trailing", !.rem = reader],
                                      p.whitespace, end, <<>>)
                         ELSE Return(r, Continue(end, StrVal(SubSeq(src[r], reader + 1, end))), <<>>)
             [] f.pc = "trailing" ->
                    Return(r, Continue(ret[r].rem,
                                       StrVal(SubSeq(src[r], f.rem + 1, MatchEnd(src[r], p.accept, f.rem)))),
                           <<>>)

\* EndOfSourceParser._consume
EndOfSourceConsume(r) ==
    /\ At(r, "eof")
    /\ LET f == Top(r)
       IN  IF finished(r, f.pos)
           THEN Return(r, Continue(f.pos, NoneVal), <<>>)
           ELSE Return(r, None, <<<<"end of source", f.pos>>>>)

\* any1 that takes an element from a finished reader
AnyConsume_past_end(r) ==
    /\ At(r, "any")
    /\ LET f == Top(r)
       IN  IF finished(r, f.pos)
           THEN Return(r, Continue(f.pos + 1, StrVal(<<>>)), <<>>)
           ELSE Return(r, Continue(f.pos + 1, StrVal(<<src[r][f.pos + 1]>>)), <<>>)

\* AnyParser._consume
AnyConsume(r) ==
    /\ At(r, "any")
    /\ LET f == Top(r)
       IN  IF finished(r, f.pos)
           THEN Return(r, None, <<<<"anything", f.pos>>>>)
           ELSE Return(r, Continue(f.pos + 1, StrVal(<<src[r][f.pos + 1]>>)), <<>>)

\* SuccessParser._consume
SuccessConsume(r) ==
    /\ At(r, "success")
    /\ Return(r, Continue(Top(r).pos, ParserOf(r, Top(r).id).value), <<>>)

\* FailureParser._consume
FailureConsume(r) ==
    /\ At(r, "failure")
    /\ Return(r, None, <<<<ParserOf(r, Top(r).id).text, Top(r).pos>>>>)

----------------------------------------------------------------------------
(* Combinators *)

\* an optional parser that fails when its parser fails
OptionalConsume_fails(r) ==
    /\ At(r, "opt")
    /\ LET f == Top(r)
           p == ParserOf(r, f.id)
       IN  IF f.pc = "start"
           THEN Consume(r, [f EXCEPT !.pc = "status"], p.parsers[1], f.pos, <<>>)
           ELSE IF ret[r].ok
                THEN Return(r, Continue(ret[r].rem, ListVal(<<ret[r].value>>)), <<>>)
                ELSE Return(r, None, <<>>)

\* OptionalParser._consume
OptionalConsume(r) ==
    /\ At(r, "opt")
    /\ LET f == Top(r)
           p == ParserOf(r, f.id)
       IN  IF f.pc = "start"
           THEN Consume(r, [f EXCEPT !.pc = "status"], p.parsers[1], f.pos, <<>>)
           ELSE IF ret[r].ok
                THEN Return(r, Continue(ret[r].rem, ListVal(<<ret[r].value>>)), <<>>)
                ELSE Return(r, Continue(f.pos, ListVal(<<>>)), <<>>)

\* a first-match alternative that tries the alternatives after a success as well
FirstAlternativeConsume_tries_all(r) ==
    /\ At(r, "first")
    /\ LET f == Top(r)
           p == ParserOf(r, f.id)
           first_success == IF f.sv.ok THEN f.sv ELSE ret[r]
       IN  IF f.pc = "start"
           THEN Consume(r, [f EXCEPT !.pc = "status"], p.parsers[1], f.pos, <<>>)
           ELSE IF f.k < Len(p.parsers)
                THEN Consume(r, [f EXCEPT !.k = f.k + 1, !.sv = first_success],
                             p.parsers[f.k + 1], f.pos, <<>>)
                ELSE Return(r, first_success, <<>>)

\* FirstAlternativeParser._consume
FirstAlternativeConsume(r) ==
    /\ At(r, "first")
    /\ LET f == Top(r)
           p == ParserOf(r, f.id)
       IN  IF f.pc = "start"
           THEN Consume(r, [f EXCEPT !.pc = "status"], p.parsers[1], f.pos, <<>>)
           ELSE IF ret[r].ok
                THEN Return(r, ret[r], <<>>)
                ELSE IF f.k < Len(p.parsers)
                     THEN Consume(r, [f EXCEPT !.k = f.k + 1], p.parsers[f.k + 1], f.pos, <<>>)
                     ELSE Return(r, None, <<>>)

\* the test with >= for >: the last of the longest successes wins
Longer_or_equal(status, longest_success) ==
    ~longest_success.ok \/ status.rem >= longest_success.rem

\* the test of LongestAlternativeParser._consume: status replaces longest_success
Longer(status, longest_success) ==
    ~longest_success.ok \/ status.rem > longest_success.rem

\* LongestAlternativeParser._consume
LongestAlternativeConsume(r) ==
    /\ At(r, "longest")
    /\ LET f == Top(r)
           p == ParserOf(r, f.id)
           longest_success == IF ret[r].ok /\ Longer(ret[r], f.sv) THEN ret[r] ELSE f.sv
       IN  IF f.pc = "start"
           THEN Consume(r, [f EXCEPT !.pc = "status"], p.parsers[1], f.pos, <<>>)
           ELSE IF f.k < Len(p.parsers)
                THEN Consume(r, [f EXCEPT !.k = f.k + 1, !.sv = longest_success],
                             p.parsers[f.k + 1], f.pos, <<>>)
                ELSE Return(r, longest_success, <<>>)

\* a sequence that applies every parser at its own reader
SequentialConsume_at_reader(r) ==
    /\ At(r, "seq")
    /\ LET f == Top(r)
           p == ParserOf(r, f.id)
           output == Append(f.out, ret[r].value)
       IN  IF f.pc = "start"
           THEN Consume(r, [f EXCEPT !.pc = "status"], p.parsers[1], f.pos, <<>>)
           ELSE IF ~ret[r].ok
                THEN Return(r, None, <<>>)
                ELSE IF f.k < Len(p.parsers)
                     THEN Consume(r, [f EXCEPT !.k = f.k + 1, !.out = output, !.rem = ret[r].rem],
                                  p.parsers[f.k + 1], f.pos, <<>>)
                     ELSE Return(r, Continue(ret[r].rem, ListVal(output)), <<>>)

\* SequentialParser._consume
SequentialConsume(r) ==
    /\ At(r, "seq")
    /\ LET f == Top(r)
           p == ParserOf(r, f.id)
           output == Append(f.out, ret[r].value)
       IN  IF f.pc = "start"
           THEN Consume(r, [f EXCEPT !.pc = "status"], p.parsers[1], f.pos, <<>>)
           ELSE IF ~ret[r].ok
                THEN Return(r, None, <<>>)
                ELSE IF f.k < Len(p.parsers)
                     THEN Consume(r, [f EXCEPT !.k = f.k + 1, !.out = output, !.rem = ret[r].rem],
                                  p.parsers[f.k + 1], ret[r].rem, <<>>)
                     ELSE Return(r, Continue(ret[r].rem, ListVal(output)), <<>>)

\* DiscardLeftParser._consume
DiscardLeftConsume(r) ==
    /\ At(r, "dl")
    /\ LET f == Top(r)
           p == ParserOf(r, f.id)
       IN  CASE f.pc = "start" ->
                    Consume(r, [f EXCEPT !.pc = "left"], p.parsers[1], f.pos, <<>>)
             [] f.pc = "left" ->
                    IF ret[r].ok
                    THEN Consume(r, [f EXCEPT !.pc = "right"], p.parsers[2], ret[r].rem, <<>>)
                    ELSE Return(r, None, <<>>)
             [] f.pc = "right" -> Return(r, ret[r], <<>>)

\* DiscardRightParser._consume
DiscardRightConsume(r) ==
    /\ At(r, "dr")
    /\ LET f == Top(r)
           p == ParserOf(r, f.id)
       IN  CASE f.pc = "start" ->
                    Consume(r, [f EXCEPT !.pc = "left"], p.parsers[1], f.pos, <<>>)
             [] f.pc = "left" ->
                    IF ret[r].ok
                    THEN Consume(r, [f EXCEPT !.pc = "right", !.sv = ret[r]],
                                 p.parsers[2], ret[r].rem, <<>>)
                    ELSE Return(r, None, <<>>)
             [] f.pc = "right" ->
                    IF ret[r].ok
                    THEN Return(r, Continue(ret[r].rem, f.sv.value), <<>>)
                    ELSE Return(r, None, <<>>)


\* the test of the repetition loops: the last application made no progress
Stalled(remainder, status) == remainder = status.rem

\* the guard with <= for <: one application more
BelowMax_inclusive(p, output) == p.max = NoMax \/ Len(output) <= p.max

\* the guard of the while loops of RepeatedParser and RepeatedSeparatedParser
BelowMax(p, output) == p.max = NoMax \/ Len(output) < p.max

\* the return without the test of min
MinReached_ignores_min(r, p, remainder, output) ==
    Return(r, Continue(remainder, ListVal(output)), <<>>)

\* the return of RepeatedParser and RepeatedSeparatedParser
MinReached(r, p, remainder, output) ==
    IF Len(output) >= p.min
    THEN Return(r, Continue(remainder, ListVal(output)), <<>>)
    ELSE Return(r, None, <<>>)

\* RepeatedOnceParser._consume
RepeatedOnceConsume(r) ==
    /\ At(r, "rep1")
    /\ LET f == Top(r)
           p == ParserOf(r, f.id)
       IN  CASE f.pc = "start" ->
                    Consume(r, [f EXCEPT !.pc = "initial"], p.parsers[1], f.pos, <<>>)
             [] f.pc = "initial" ->
                    IF ~ret[r].ok
                    THEN Return(r, None, <<>>)
                    ELSE Consume(r, [f EXCEPT !.pc = "loop", !.out = <<ret[r].value>>,
                                              !.rem = ret[r].rem],
                                 p.parsers[1], ret[r].rem, <<>>)
             [] f.pc = "loop" ->
                    IF ret[r].ok
                    THEN IF Stalled(f.rem, ret[r])
                         THEN Raise(r, f.id, f.rem)
                         ELSE Consume(r, [f EXCEPT !.out = Append(f.out, ret[r].value),
                                                   !.rem = ret[r].rem],
                                      p.parsers[1], ret[r].rem, <<>>)
                    ELSE Return(r, Continue(f.rem, ListVal(f.out)), <<>>)

\* RepeatedParser._consume
RepeatedConsume(r) ==
    /\ At(r, "rep")
    /\ LET f == Top(r)
           p == ParserOf(r, f.id)
           output == Append(f.out, ret[r].value)
       IN  CASE f.pc = "start" ->
                    IF BelowMax(p, <<>>)
                    THEN Consume(r, [f EXCEPT !.pc = "loop"], p.parsers[1], f.pos, <<>>)
                    ELSE MinReached(r, p, f.pos, <<>>)
             [] f.pc = "loop" ->
                    IF ret[r].ok
                    THEN IF Stalled(f.rem, ret[r])
                         THEN Raise(r, f.id, f.rem)
                         ELSE IF BelowMax(p, output)
                              THEN Consume(r, [f EXCEPT !.out = output, !.rem = ret[r].rem],
                                           p.parsers[1], ret[r].rem, <<>>)
                              ELSE MinReached(r, p, ret[r].rem, output)
                    ELSE MinReached(r, p, f.rem, f.out)

\* repsep that keeps the remainder of a separator whose parser fails
RepeatedSeparatedConsume_takes_separator(r) ==
    /\ At(r, "repsep")
    /\ LET f == Top(r)
           p == ParserOf(r, f.id)
           output == Append(f.out, ret[r].value)
       IN  CASE f.pc = "start" ->
                    Consume(r, [f EXCEPT !.pc = "initial"], p.parsers[1], f.pos, <<>>)
             [] f.pc = "initial" ->
                    IF ~ret[r].ok
                    THEN MinReached(r, p, f.pos, <<>>)
                    ELSE IF BelowMax(p, output)
                         THEN Consume(r, [f EXCEPT !.pc = "separator", !.out = output,
                                                   !.rem = ret[r].rem],
                                      p.parsers[2], ret[r].rem, <<>>)
                         ELSE MinReached(r, p, ret[r].rem, output)
             [] f.pc = "separator" ->
                    IF ret[r].ok
                    THEN Consume(r, [f EXCEPT !.pc = "parser", !.k = ret[r].rem],
                                 p.parsers[1], ret[r].rem, <<>>)
                    ELSE MinReached(r, p, f.rem, f.out)
             [] f.pc = "parser" ->
                    IF ret[r].ok
                    THEN IF Stalled(f.rem, ret[r])
                         THEN Raise(r, f.id, f.rem)
                         ELSE IF BelowMax(p, output)
                              THEN Consume(r, [f EXCEPT !.pc = "separator", !.out = output,
                                                        !.rem = ret[r].rem],
                                           p.parsers[2], ret[r].rem, <<>>)
                              ELSE MinReached(r, p, ret[r].rem, output)
                    ELSE MinReached(r, p, f.k, f.out)

\* RepeatedSeparatedParser._consume
RepeatedSeparatedConsume(r) ==
    /\ At(r, "repsep")
    /\ LET f == Top(r)
           p == ParserOf(r, f.id)
           output == Append(f.out, ret[r].value)
       IN  CASE f.pc = "start" ->
                    Consume(r, [f EXCEPT !.pc = "initial"], p.parsers[1], f.pos, <<>>)
             [] f.pc = "initial" ->
                    IF ~ret[r].ok
                    THEN MinReached(r, p, f.pos, <<>>)
                    ELSE IF BelowMax(p, output)
                         THEN Consume(r, [f EXCEPT !.pc = "separator", !.out = output,
                                                   !.rem = ret[r].rem],
                                      p.parsers[2], ret[r].rem, <<>>)
                         ELSE MinReached(r, p, ret[r].rem, output)
             [] f.pc = "separator" ->
                    IF ret[r].ok
                    THEN Consume(r, [f EXCEPT !.pc = "parser"], p.parsers[1], ret[r].rem, <<>>)
                    ELSE MinReached(r, p, f.rem, f.out)
             [] f.pc = "parser" ->
                    IF ret[r].ok
                    THEN IF Stalled(f.rem, ret[r])
                         THEN Raise(r, f.id, f.rem)
                         ELSE IF BelowMax(p, output)
                              THEN Consume(r, [f EXCEPT !.pc = "separator", !.out = output,
                                                        !.rem = ret[r].rem],
                                           p.parsers[2], ret[r].rem, <<>>)
                              ELSE MinReached(r, p, ret[r].rem, output)
                    ELSE MinReached(r, p, f.rem, f.out)

\* a separated repetition that keeps the remainder of a separator whose parser
\* fails: it takes the trailing separator
RepeatedOnceSeparatedConsume_takes_separator(r) ==
    /\ At(r, "rep1sep")
    /\ LET f == Top(r)
           p == ParserOf(r, f.id)
           output == Append(f.out, ret[r].value)
       IN  CASE f.pc = "start" ->
                    Consume(r, [f EXCEPT !.pc = "initial"], p.parsers[1], f.pos, <<>>)
             [] f.pc = "initial" ->
                    IF ~ret[r].ok
                    THEN Return(r, None, <<>>)
                    ELSE Consume(r, [f EXCEPT !.pc = "separator", !.out = output,
                                              !.rem = ret[r].rem],
                                 p.parsers[2], ret[r].rem, <<>>)
             [] f.pc = "separator" ->
                    IF ret[r].ok
                    THEN Consume(r, [f EXCEPT !.pc = "parser", !.k = ret[r].rem],
                                 p.parsers[1], ret[r].rem, <<>>)
                    ELSE Return(r, Continue(f.rem, ListVal(f.out)), <<>>)
             [] f.pc = "parser" ->
                    IF ret[r].ok
                    THEN IF Stalled(f.rem, ret[r])
                         THEN Raise(r, f.id, f.rem)
                         ELSE Consume(r, [f EXCEPT !.pc = "separator", !.out = output,
                                                   !.rem = ret[r].rem],
                                      p.parsers[2], ret[r].rem, <<>>)
                    ELSE Return(r, Continue(f.k, ListVal(f.out)), <<>>)

\* RepeatedOnceSeparatedParser._consume
RepeatedOnceSeparatedConsume(r) ==
    /\ At(r, "rep1sep")
    /\ LET f == Top(r)
           p == ParserOf(r, f.id)
           output == Append(f.out, ret[r].value)
       IN  CASE f.pc = "start" ->
                    Consume(r, [f EXCEPT !.pc = "initial"], p.parsers[1], f.pos, <<>>)
             [] f.pc = "initial" ->
                    IF ~ret[r].ok
                    THEN Return(r, None, <<>>)
                    ELSE Consume(r, [f EXCEPT !.pc = "separator", !.out = output,
                                              !.rem = ret[r].rem],
                                 p.parsers[2], ret[r].rem, <<>>)
             [] f.pc = "separator" ->
                    IF ret[r].ok
                    THEN Consume(r, [f EXCEPT !.pc = "parser"], p.parsers[1], ret[r].rem, <<>>)
                    ELSE Return(r, Continue(f.rem, ListVal(f.out)), <<>>)
             [] f.pc = "parser" ->
                    IF ret[r].ok
                    THEN IF Stalled(f.rem, ret[r])
                         THEN Raise(r, f.id, f.rem)
                         ELSE Consume(r, [f EXCEPT !.pc = "separator", !.out = output,
                                                   !.rem = ret[r].rem],
                                      p.parsers[2], ret[r].rem, <<>>)
                    ELSE Return(r, Continue(f.rem, ListVal(f.out)), <<>>)

\* a predicate parser that registers its description at its own reader
PredicateConsume_at_reader(r) ==
    /\ At(r, "pred")
    /\ LET f == Top(r)
           p == ParserOf(r, f.id)
       IN  IF f.pc = "start"
           THEN Consume(r, [f EXCEPT !.pc = "status"], p.parsers[1], f.pos, <<>>)
           ELSE IF ret[r].ok
                THEN IF ret[r].value \in p.accept
                     THEN Return(r, ret[r], <<>>)
                     ELSE Return(r, None, <<<<p.text, f.pos>>>>)
                ELSE Return(r, ret[r], <<>>)

\* PredicateParser._consume
PredicateConsume(r) ==
    /\ At(r, "pred")
    /\ LET f == Top(r)
           p == ParserOf(r, f.id)
       IN  IF f.pc = "start"
           THEN Consume(r, [f EXCEPT !.pc = "status"], p.parsers[1], f.pos, <<>>)
           ELSE IF ret[r].ok
                THEN IF ret[r].value \in p.accept
                     THEN Return(r, ret[r], <<>>)
                     ELSE Return(r, None, <<<<p.text, ret[r].rem>>>>)
                ELSE Return(r, ret[r], <<>>)

\* an until parser whose remainder is behind the match of its parser
UntilConsume_takes_match(r) ==
    /\ At(r, "until")
    /\ LET f == Top(r)
           p == ParserOf(r, f.id)
       IN  IF f.pc = "start"
           THEN Consume(r, [f EXCEPT !.pc = "status"], p.parsers[1], f.pos, <<>>)
           ELSE IF ret[r].ok
                THEN Return(r, Continue(ret[r].rem, StrVal(SubSeq(src[r], f.pos + 1, f.rem))), <<>>)
                ELSE IF finished(r, f.rem)
                     THEN Return(r, ret[r], <<>>)
                     ELSE Consume(r, [f EXCEPT !.rem = f.rem + 1], p.parsers[1], f.rem + 1, <<>>)

\* UntilParser._consume
UntilConsume(r) ==
    /\ At(r, "until")
    /\ LET f == Top(r)
           p == ParserOf(r, f.id)
       IN  IF f.pc = "start"
           THEN Consume(r, [f EXCEPT !.pc = "status"], p.parsers[1], f.pos, <<>>)
           ELSE IF ret[r].ok
                THEN Return(r, Continue(f.rem, StrVal(SubSeq(src[r], f.pos + 1, f.rem))), <<>>)
                ELSE IF finished(r, f.rem)
                     THEN Return(r, ret[r], <<>>)
                     ELSE Consume(r, [f EXCEPT !.rem = f.rem + 1], p.parsers[1], f.rem + 1, <<>>)

\* ConversionParser._consume
ConversionConsume(r) ==
    /\ At(r, "conv")
    /\ LET f == Top(r)
           p == ParserOf(r, f.id)
       IN  IF f.pc = "start"
           THEN Consume(r, [f EXCEPT !.pc = "status"], p.parsers[1], f.pos, <<>>)
           ELSE IF ret[r].ok
                THEN Return(r, Continue(ret[r].rem, Converted(ret[r].value)), <<>>)
                ELSE Return(r, None, <<>>)

\* a terminal constructed while run r parses: lit(pattern) called by the
\* transformer of the top activation, which keeps the new parser in out
Construct(r, f, parser) ==
    /\ Cardinality(Constructed) < MaxMade
    /\ objects' = objects @@ (NextId :> parser)
    /\ made' = Append(made, [id |-> NextId, by |-> "parse", open |-> Open, scope |-> Scope,
                             whitespace |-> options.whitespace])
    /\ stack' = [stack EXCEPT ![r] = ReplaceTop(@, [f EXCEPT !.pc = "constructed", !.out = <<NextId>>])]
    /\ UNCHANGED <<threads, options, dicts, closed, message, src, root, memoized>>
    /\ UNCHANGED <<phase, state, ret, exc, result, regs, calls, last>>

\* TransformationParser._consume; a transformer that constructs a literal
\* calls lit, which reads options.whitespace
TransformationConsume(r) ==
    /\ At(r, "trans")
    /\ LET f == Top(r)
           p == ParserOf(r, f.id)
           transformed == IF ret[r].value \in p.accept THEN p.parsers[2] ELSE p.parsers[3]
       IN  CASE f.pc = "start" ->
                    Consume(r, [f EXCEPT !.pc = "status"], p.parsers[1], f.pos, <<>>)
             [] f.pc = "status" ->
                    IF ~ret[r].ok
                    THEN Return(r, ret[r], <<>>)
                    ELSE IF Len(p.parsers) = 1
                         THEN Construct(r, f, LiteralParser(p.pattern, p.text, options.whitespace))
                         ELSE Consume(r, [f EXCEPT !.pc = "transformed"], transformed, ret[r].rem, <<>>)
             [] f.pc = "constructed" ->
                    Consume(r, [f EXCEPT !.pc = "transformed"], f.out[1], ret[r].rem, <<>>)
             [] f.pc = "transformed" -> Return(r, ret[r], <<>>)

----------------------------------------------------------------------------
(* Parser.parse *)

\* parse without the loop: state.expected as it is
unique_expected_keeps_all(expected, unique) == expected

\* the loop of parse that copies state.expected without its duplicates
\* (one iteration: the tail of the list and the new unique_expected are
\* values before the next iteration starts)
RECURSIVE unique_expected(_, _)
unique_expected(expected, unique) ==
    IF expected = <<>> THEN unique
    ELSE CHOOSE done \in
            {unique_expected(rest, next) :
                rest \in {Tail(expected)},
                next \in {IF \E i \in DOMAIN unique : unique[i] = Head(expected)
                          THEN unique
                          ELSE Append(unique, Head(expected))}} : TRUE

Success(value) == [NoResult EXCEPT !.kind = "Success", !.value = value]
Failure(farthest, expected) ==
    [NoResult EXCEPT !.kind = "Failure", !.farthest = farthest, !.expected = expected]
RecursionError(parser, context) ==
    [NoResult EXCEPT !.kind = "RecursionError", !.parser = parser, !.context = context]

\* what parse returns for the status of (self << eof).consume
ParseResult(status, st) ==
    IF status.ok
    THEN Success(status.value)
    ELSE Failure(st.farthest, unique_expected(st.expected, <<>>))

\* parse up to its call of consume: reader = StringReader(source, 0); state = State();
\* (self << eof).consume(state, reader)
ParseStart(r) ==
    /\ phase[r] = "ready"
    /\ Sched(r)
    /\ phase' = [phase EXCEPT ![r] = "running"]
    /\ state' = [state EXCEPT ![r] =
                    IF memoized[r] THEN [NewState EXCEPT !.memo = <<"parse", 0>> :> None]
                    ELSE NewState]
    /\ stack' = [stack EXCEPT ![r] = <<Frame("parse", 0)>>]
    /\ calls' = [calls EXCEPT ![r] = <<[by |-> <<"", 0>>, id |-> "parse", pos |-> 0]>>]
    /\ last' = [last EXCEPT ![r] = [ev |-> "call", id |-> "parse", pos |-> 0, status |-> None]]
    /\ UNCHANGED <<ret, exc, result, regs>>
    /\ Fixed

\* parse after consume has returned
ParseFinish(r) ==
    /\ phase[r] = "running"
    /\ Sched(r)
    /\ stack[r] = <<>>
    /\ ~exc[r].raised
    /\ phase' = [phase EXCEPT ![r] = "done"]
    /\ result' = [result EXCEPT ![r] = ParseResult(ret[r], state[r])]
    /\ UNCHANGED <<state, stack, ret, exc, regs, calls, last>>
    /\ Fixed

\* an alternative that takes an exception of an alternative for its failure
Unwind_caught(r) ==
    /\ phase[r] = "running"
    /\ Sched(r)
    /\ exc[r].raised
    /\ stack[r] # <<>>
    /\ stack' = [stack EXCEPT ![r] = Pop(@)]
    /\ last' = [last EXCEPT ![r] = [ev |-> "unwind", id |-> Top(r).id, pos |-> Top(r).pos,
                                   status |-> None]]
    /\ IF Len(stack[r]) > 1 /\ ParserOf(r, stack[r][Len(stack[r]) - 1].id).kind \in {"first", "longest"}
       THEN exc' = [exc EXCEPT ![r] = NoExc] /\ ret' = [ret EXCEPT ![r] = None]
       ELSE UNCHANGED <<exc, ret>>
    /\ UNCHANGED <<phase, state, result, regs, calls>>
    /\ Fixed

\* no _consume has a try statement: a raised exception leaves the activation
Unwind(r) ==
    /\ phase[r] = "running"
    /\ Sched(r)
    /\ exc[r].raised
    /\ stack[r] # <<>>
    /\ stack' = [stack EXCEPT ![r] = Pop(@)]
    /\ last' = [last EXCEPT ![r] = [ev |-> "unwind", id |-> Top(r).id, pos |-> Top(r).pos,
                                   status |-> None]]
    /\ UNCHANGED <<phase, state, ret, exc, result, regs, calls>>
    /\ Fixed

\* nor has parse: the exception reaches the caller of parse
ParseRaise(r) ==
    /\ phase[r] = "running"
    /\ Sched(r)
    /\ exc[r].raised
    /\ stack[r] = <<>>
    /\ phase' = [phase EXCEPT ![r] = "done"]
    /\ result' = [result EXCEPT ![r] = RecursionError(exc[r].parser, exc[r].context)]
    /\ UNCHANGED <<state, stack, ret, exc, regs, calls, last>>
    /\ Fixed

----------------------------------------------------------------------------
(* metaclasses.py: the class statement of a ParserContext.  __prepare__    *)
(* runs before the class body and GeneralParsersMeta.__init__ after it;    *)
(* the body is the user's: it calls lit, reads names and assigns names, in *)
(* any order, and may hold class statements and parse calls.  A dict is    *)
(* the ParsersDict of a body: old_options, forward_declarations (in the    *)
(* order of their insertion) and its items; before and installed are       *)
(* history, the options before __prepare__ and the whitespace it set.      *)

MaxNesting == 2                 \* deepest nesting of class bodies
MaxClasses == 2                 \* most class statements of a behaviour
Names == {"x"}                  \* the names a class body reads and assigns
BareLiteral == "a str"          \* a value that is not a Parser: the literal 'b'

\* the whitespace argument of a class statement: None or a pattern, with the
\* character class the pattern repeats
WhitespaceArgs == {"None", "r'[ ]*'"}
WhitespaceClass(w) == {" "}

\* there is one thread: no statement of a class body runs during a parse
Idle == \A r \in Runs : phase[r] # "running"

RunVars == <<threads, message, src, root, memoized, phase, state, stack, ret, exc, result, regs, calls, last>>

\* TextParsersMeta.__prepare__(whitespace = w)
Prepare(w) ==
    /\ Idle
    /\ Len(dicts) < MaxNesting
    /\ Len(dicts) + Len(closed) < MaxClasses
    /\ w # "None" => Cardinality(Constructed) < MaxMade
    /\ objects' = IF w = "None" THEN objects
                  ELSE objects @@ (NextId :> RegexParser(WhitespaceClass(w), 0, w, NoWhitespace))
    /\ options' = [whitespace |-> IF w = "None" THEN NoWhitespace ELSE NextId,
                   handle_literal |-> "default_handle_literal",
                   parse_method |-> "default_parse_method"]
    /\ dicts' = Append(dicts, [old_options |-> options,
                               forward_declarations |-> <<>>,
                               items |-> <<>>,
                               before |-> options,
                               installed |-> options'.whitespace])
    /\ UNCHANGED <<closed, made, RunVars>>

\* lit('b') in a class body or outside every class body: wrap_literal and
\* lit construct LiteralParser(pattern, options.whitespace)
Lit ==
    /\ Idle
    /\ Cardinality(Constructed) < MaxMade
    /\ objects' = objects @@ (NextId :> LiteralParser(<<"b">>, "'b'", options.whitespace))
    /\ made' = Append(made, [id |-> NextId, by |-> "body", open |-> Open, scope |-> Scope,
                             whitespace |-> options.whitespace])
    /\ UNCHANGED <<options, dicts, closed, RunVars>>

\* the forward declaration a dict holds for a name, if any
ForwardOf(d, key) ==
    {d.forward_declarations[i][2] : i \in {j \in DOMAIN d.forward_declarations :
                                              d.forward_declarations[j][1] = key}}

\* ParsersDict.__missing__(key): the body reads a name it has not assigned,
\* that the enclosing class body has not assigned either and that is no
\* global and no builtin: a new forward declaration.  (A second read returns
\* the forward declaration of the first and changes nothing.)
Missing(key) ==
    /\ Idle
    /\ Open
    /\ LET d == dicts[Len(dicts)]
       IN  /\ key \notin DOMAIN d.items
           /\ ForwardOf(d, key) = {}
           /\ Len(dicts) > 1 => key \notin DOMAIN dicts[Len(dicts) - 1].items
    /\ Cardinality(Constructed) < MaxMade
    /\ objects' = objects @@ (NextId :> ForwardDeclaration)
    /\ dicts' = [dicts EXCEPT ![Len(dicts)].forward_declarations = Append(@, <<key, NextId>>)]
    /\ UNCHANGED <<options, closed, made, RunVars>>

\* ParsersDict.__setitem__(key, value): the body assigns a literal parser it
\* has constructed, or a str, to a name (value.name, which only repr reads,
\* is not modelled)
SetItem(key, value) ==
    /\ Idle
    /\ Open
    /\ \/ value = BareLiteral
       \/ value \in Constructed /\ objects[value].kind = "lit"
    /\ dicts' = [dicts EXCEPT ![Len(dicts)].items = (key :> value) @@ @]
    /\ objects' = IF value \in DOMAIN objects
                  THEN [objects EXCEPT ![value] = Named(@)]
                  ELSE objects
    /\ UNCHANGED <<options, closed, made, RunVars>>

\* the loop of GeneralParsersMeta.__init__ over dct.forward_declarations:
\* dct[name] is the item of the name or, when the name has no item, what
\* __missing__ returns, the forward declaration itself; an object that is no
\* Parser goes to options.handle_literal, which is default_handle_literal
\* and raises ImportError (parsita.parsers has no LiteralStringParser)
RECURSIVE Resolve(_, _, _)
Resolve(objs, forward_declarations, items) ==
    IF forward_declarations = <<>> THEN [objects |-> objs, raised |-> FALSE]
    ELSE LET name == forward_declarations[1][1]
             forward_declaration == forward_declarations[1][2]
             obj == IF name \in DOMAIN items THEN items[name] ELSE forward_declaration
         IN  IF obj \in DOMAIN objs
             THEN Resolve([objs EXCEPT ![forward_declaration].parsers = <<obj>>],
                          Tail(forward_declarations), items)
             ELSE [objects |-> objs, raised |-> TRUE]

\* GeneralParsersMeta.__init__: the end of the class statement.  If the loop
\* raises, the statement ends there: nothing after the loop is executed.
MetaInit ==
    /\ Idle
    /\ Open
    /\ LET d == dicts[Len(dicts)]
           resolved == Resolve(objects, d.forward_declarations, d.items)
       IN  /\ objects' = resolved.objects
           /\ options' = IF resolved.raised THEN options ELSE d.old_options
           /\ closed' = Append(closed, [raised |-> resolved.raised,
                                       forward_declarations |-> d.forward_declarations,
                                       items |-> d.items,
                                       before |-> d.before,
                                       installed |-> d.installed,
                                       after |-> options'])
    /\ dicts' = Pop(dicts)
    /\ UNCHANGED <<made, RunVars>>

\* the lines of a source as StringIO iterates over them, each with its "\n"
RECURSIVE Lines(_, _)
Lines(source, line) ==
    IF source = <<>> THEN (IF line = <<>> THEN <<>> ELSE <<line>>)
    ELSE IF Head(source) = "\n"
         THEN <<Append(line, "\n")>> \o Lines(Tail(source), <<>>)
         ELSE Lines(Tail(source), Append(line, Head(source)))

Spaces(n) == [i \in 1..n |-> " "]

\* StringReader.current_line: the loop over the lines from line_index on,
\* with characters_consumed; it returns nothing when the lines are exhausted
RECURSIVE current_line(_, _, _, _)
current_line(lines, position, line_index, characters_consumed) ==
    IF line_index > Len(lines) THEN NoMessage
    ELSE LET line == lines[line_index]
         IN  IF characters_consumed + Len(line) > position
             THEN LET character_index == position - characters_consumed
                  IN  [NoMessage EXCEPT
                          !.located = TRUE,
                          !.line_index = line_index,
                          !.character_index = character_index + 1,
                          !.line = IF line[Len(line)] # "\n" THEN Append(line, "\n") ELSE line,
                          !.pointer = Spaces(character_index) \o <<"^">>
                                        \o Spaces(Len(line) - character_index - 1)]
             ELSE current_line(lines, position, line_index + 1, characters_consumed + Len(line))

\* StringReader.next_token on a source of letters, blanks and newlines:
\* next_token_regex matches a run of \w or a run of \s
WordChars == {"a", "b"}
next_token(source, position) ==
    IF source[position + 1] \in WordChars
    THEN SubSeq(source, position + 1, MatchEnd(source, WordChars, position))
    ELSE SubSeq(source, position + 1, MatchEnd(source, {" ", "\n"}, position))

\* repr of a str: "\n" is written as a backslash and an n
RECURSIVE Escaped(_)
Escaped(s) ==
    IF s = <<>> THEN <<>>
    ELSE (IF Head(s) = "\n" THEN <<"\\", "n">> ELSE <<Head(s)>>) \o Escaped(Tail(s))

\* StringReader.expected_error, and Reader.expected_error for a finished reader
expected_error(source, position, expected) ==
    IF position >= Len(source)
    THEN [NoMessage EXCEPT !.expected = expected, !.found = <<"end of source">>]
    ELSE [current_line(Lines(source, <<>>), position, 1, 0) EXCEPT
            !.expected = expected,
            !.found = StrVal(Escaped(next_token(source, position)))]

\* ParseError.__str__, of the error of the Failure that parse returned
Str(r) ==
    /\ phase[r] = "done"
    /\ result[r].kind = "Failure"
    /\ message[r] = NoMessage
    /\ message' = [message EXCEPT ![r] =
                      expected_error(src[r], result[r].farthest, result[r].expected)]
    /\ UNCHANGED <<objects, threads, options, dicts, closed, made, src, root, memoized>>
    /\ UNCHANGED <<phase, state, stack, ret, exc, result, regs, calls, last>>

----------------------------------------------------------------------------
(* Specifications *)

\* the runs parse the sources with the roots, run r memoized iff memos[r]
Setup(sources, roots, memos) ==
    /\ objects = Grammar
    /\ threads = {}
    /\ options = DefaultOptions
    /\ dicts = <<>>
    /\ closed = <<>>
    /\ made = <<>>
    /\ src = sources
    /\ root = roots
    /\ memoized = memos
    /\ phase = [r \in DOMAIN roots |-> "ready"]
    /\ state = [r \in DOMAIN roots |-> NewState]
    /\ stack = [r \in DOMAIN roots |-> <<>>]
    /\ ret = [r \in DOMAIN roots |-> None]
    /\ exc = [r \in DOMAIN roots |-> NoExc]
    /\ result = [r \in DOMAIN roots |-> NoResult]
    /\ message = [r \in DOMAIN roots |-> NoMessage]
    /\ regs = [r \in DOMAIN roots |-> <<>>]
    /\ calls = [r \in DOMAIN roots |-> <<>>]
    /\ last = [r \in DOMAIN roots |-> [ev |-> "none", id |-> "", pos |-> 0, status |-> None]]

\* one parse of any source by any parser of the grammar
Init == \E s \in Sources, p \in Roots : Setup(<<s>>, <<p>>, <<TRUE>>)

Next ==
    \/ \E r \in Runs : ParseStart(r)
    \/ \E r \in Runs : LiteralConsume(r)
    \/ \E r \in Runs : RegexConsume(r)
    \/ \E r \in Runs : EndOfSourceConsume(r)
    \/ \E r \in Runs : AnyConsume(r)
    \/ \E r \in Runs : SuccessConsume(r)
    \/ \E r \in Runs : FailureConsume(r)
    \/ \E r \in Runs : OptionalConsume(r)
    \/ \E r \in Runs : FirstAlternativeConsume(r)
    \/ \E r \in Runs : LongestAlternativeConsume(r)
    \/ \E r \in Runs : SequentialConsume(r)
    \/ \E r \in Runs : DiscardLeftConsume(r)
    \/ \E r \in Runs : DiscardRightConsume(r)
    \/ \E r \in Runs : RepeatedOnceConsume(r)
    \/ \E r \in Runs : RepeatedConsume(r)
    \/ \E r \in Runs : RepeatedSeparatedConsume(r)
    \/ \E r \in Runs : RepeatedOnceSeparatedConsume(r)
    \/ \E r \in Runs : PredicateConsume(r)
    \/ \E r \in Runs : UntilConsume(r)
    \/ \E r \in Runs : ConversionConsume(r)
    \/ \E r \in Runs : TransformationConsume(r)
    \/ \E r \in Runs : Unwind(r)
    \/ \E r \in Runs : ParseRaise(r)
    \/ \E r \in Runs : ParseFinish(r)

Spec == Init /\ [][Next]_vars


\* one source parsed twice by one parser: with the memo, then without it
InitMemo == \E s \in Sources, p \in Roots : Setup(<<s, s>>, <<p, p>>, <<TRUE, FALSE>>)

SpecMemo == InitMemo /\ [][Next]_vars

----------------------------------------------------------------------------
(* What the properties speak about *)

Memo(r) == state[r].memo

\* the consume calls made by the activation of P at position i, in order
CallsBy(r, P, i) == SelectSeq(calls[r], LAMBDA c : c.by = <<P, i>>)

\* the status the memo holds for a call
StatusOf(r, c) == Memo(r)[<<c.id, c.pos>>]

\* the greatest position of a sequence of register_failure calls
MaxPos(rs) ==
    IF rs = <<>> THEN NoReader
    ELSE CHOOSE m \in {rs[i][2] : i \in DOMAIN rs} : \A i \in DOMAIN rs : rs[i][2] <= m

\* the descriptions registered at the greatest position, in registration order
AtMaxPos(rs) ==
    LET at == SelectSeq(rs, LAMBDA x : x[2] = MaxPos(rs))
    IN  [i \in 1..Len(at) |-> at[i][1]]

FirstIndex(seq, x) == CHOOSE i \in DOMAIN seq : seq[i] = x /\ \A j \in 1..(i - 1) : seq[j] # x

Done(r) == phase[r] = "done"

----------------------------------------------------------------------------
(* C1: parse consumes self << eof at position 0 with a fresh State; it     *)
(* returns Success(v) exactly when its parser succeeds at 0 with value v   *)
(* and a remainder at the end of the source, and otherwise Failure with    *)
(* state.farthest and state.expected without its duplicates.               *)
C1_Parse ==
    \A r \in Runs :
        /\ (last[r].ev = "call" /\ last[r].id = "parse") =>
                /\ state[r].farthest = NoReader
                /\ state[r].expected = <<>>
                /\ DOMAIN Memo(r) = {<<"parse", 0>>}
                /\ ParserOf(r, "parse").parsers = <<root[r], "eof">>
        /\ (Done(r) /\ result[r].kind \in {"Success", "Failure"}) =>
                LET status == Memo(r)[<<root[r], 0>>]
                    e == state[r].expected
                    u == result[r].expected
                IN  /\ calls[r][2] = [by |-> <<"parse", 0>>, id |-> root[r], pos |-> 0]
                    /\ result[r].kind = "Success" <=> (status.ok /\ status.rem = Len(src[r]))
                    /\ result[r].kind = "Success" => result[r].value = status.value
                    /\ result[r].kind = "Failure" =>
                            /\ result[r].farthest = state[r].farthest
                            /\ {u[i] : i \in DOMAIN u} = {e[i] : i \in DOMAIN e}
                            /\ \A i, j \in DOMAIN u : i < j =>
                                    FirstIndex(e, u[i]) < FirstIndex(e, u[j])

\* a parser that succeeds and leaves input: parse fails
C1_Witness ==
    \E r \in Runs :
        /\ Done(r) /\ result[r].kind = "Failure"
        /\ Memo(r)[<<root[r], 0>>].ok
        /\ Memo(r)[<<root[r], 0>>].rem < Len(src[r])

(* C2: after any sequence of register_failure calls, farthest is the       *)
(* greatest registered position and expected is the sequence of the        *)
(* descriptions registered at that position, in registration order.        *)
C2_RegisterFailure ==
    \A r \in Runs :
        /\ state[r].farthest = MaxPos(regs[r])
        /\ state[r].expected = AtMaxPos(regs[r])

\* a failure replaced by a farther one, a nearer one ignored, and a tie
C2_Witness ==
    \E r \in Runs :
        /\ Len(state[r].expected) >= 2
        /\ \E i, j \in DOMAIN regs[r] : i < j /\ regs[r][i][2] < regs[r][j][2]
        /\ \E i, j \in DOMAIN regs[r] : i < j /\ regs[r][i][2] > regs[r][j][2]

(* C3: the expected list of a Failure holds every description registered   *)
(* at the farthest position exactly once, in the order of the first        *)
(* registrations.                                                          *)
C3_UniqueExpected ==
    \A r \in Runs :
        (Done(r) /\ result[r].kind = "Failure") =>
            LET u == result[r].expected
                at == AtMaxPos(regs[r])
            IN  /\ \A i, j \in DOMAIN u : u[i] = u[j] => i = j
                /\ {u[i] : i \in DOMAIN u} = {at[i] : i \in DOMAIN at}
                /\ \A i, j \in DOMAIN u : i < j => FirstIndex(at, u[i]) < FirstIndex(at, u[j])

\* a description registered twice at the farthest position
C3_Witness ==
    \E r \in Runs :
        /\ Done(r) /\ result[r].kind = "Failure"
        /\ Len(result[r].expected) >= 2
        /\ Len(state[r].expected) > Len(result[r].expected)

(* C4, as claimed: for every grammar and source, parse returns with the    *)
(* memo what it returns without it.                                        *)
C4_MemoChangesNothing ==
    (Done(1) /\ Done(2)) => result[1] = result[2]

(* C4, amended: whenever the evaluation without the memo terminates (it    *)
(* does not exhaust the call stack), parse returns the same Success, the   *)
(* same ParseError or raises the same RecursionError with the memo.        *)
C4_MemoChangesNothingIfTerminating ==
    (Done(1) /\ Done(2) /\ result[2].kind # "StackOverflow") => result[1] = result[2]

\* a parse in which the memo answers a consume, and which fails both ways
C4_Witness ==
    /\ Done(1) /\ Done(2)
    /\ result[2].kind = "Failure"
    /\ result[1] = result[2]
    /\ \E i, j \in DOMAIN calls[1] :
            i < j /\ calls[1][i].id = calls[1][j].id /\ calls[1][i].pos = calls[1][j].pos
    /\ Len(state[1].expected) < Len(state[2].expected)

(* C5: whenever a consume returns None, register_failure has been called   *)
(* on the State before, so that a Failure has a farthest reader and a      *)
(* non-empty expected list.                                                *)
C5_FailureIsRegistered ==
    \A r \in Runs :
        /\ (last[r].ev \in {"return", "hit"} /\ ~last[r].status.ok) => regs[r] # <<>>
        /\ (Done(r) /\ result[r].kind = "Failure") =>
                (result[r].farthest # NoReader /\ result[r].expected # <<>>)

----------------------------------------------------------------------------
RepKinds == {"rep", "rep1", "repsep", "rep1sep"}
Separated == {"repsep", "rep1sep"}

KindOf(r, id) == ParserOf(r, id).kind

\* the activation of P at position i applied its repeated parser (or, for
\* the separated forms, separator and then parser) without progress
StalledIn(r, P, i) ==
    LET cs == CallsBy(r, P, i)
    IN  IF KindOf(r, P) \in Separated
        THEN \E n \in 3..Len(cs) :
                /\ n % 2 = 1
                /\ StatusOf(r, cs[n - 1]).ok
                /\ StatusOf(r, cs[n]).ok
                /\ StatusOf(r, cs[n]).rem = cs[n - 1].pos
        ELSE \E n \in 1..Len(cs) :
                StatusOf(r, cs[n]).ok /\ StatusOf(r, cs[n]).rem = cs[n].pos

(* C6: a repetition whose parser (separator and parser) succeeds at        *)
(* position i without advancing raises RecursionError with itself and the  *)
(* reader at i: it returns no result, and every value it collects in its   *)
(* loop took at least one element of input, so that it cannot loop for     *)
(* ever.                                                                   *)
C6_StallRaises ==
    \A r \in Runs :
        \* an activation that returns has not stalled
        /\ (last[r].ev = "return" /\ KindOf(r, last[r].id) \in RepKinds) =>
                ~StalledIn(r, last[r].id, last[r].pos)
        \* a raise carries the combinator and the position of the stalled application
        /\ last[r].ev = "raise" =>
                LET f == Top(r)
                    cs == CallsBy(r, f.id, f.pos)
                    applied == IF KindOf(r, f.id) \in Separated THEN cs[Len(cs) - 1] ELSE cs[Len(cs)]
                IN  /\ KindOf(r, f.id) \in RepKinds
                    /\ exc[r] = [raised |-> TRUE, parser |-> f.id, context |-> applied.pos]
                    /\ ret[r].ok /\ ret[r].rem = applied.pos
        \* progress: one element of input at least for every collected value
        \* (but the first one of rep1, repsep and rep1sep, applied before the loop)
        /\ \A n \in DOMAIN stack[r] :
                LET f == stack[r][n]
                IN  KindOf(r, f.id) \in RepKinds =>
                        Len(f.out) <= (f.rem - f.pos) + (IF KindOf(r, f.id) = "rep" THEN 0 ELSE 1)
        \* rep(opt('a')) on 'aab'
        /\ (Done(r) /\ root[r] = "rep_opt_a" /\ src[r] = <<"a", "a", "b">>) =>
                result[r] = RecursionError("rep_opt_a", 2)

\* rep1sep(opt('a'), opt('b')) stalls after it has consumed input
C6_Witness ==
    \E r \in Runs :
        /\ last[r].ev = "raise"
        /\ KindOf(r, Top(r).id) = "rep1sep"
        /\ exc[r].context = 2
        /\ StalledIn(r, Top(r).id, Top(r).pos)

(* C7: no combinator catches a RecursionError: once raised, no activation  *)
(* resumes, no status is returned, the State is not written, and parse     *)
(* ends by raising that exception.                                         *)
C7_NeverCaught ==
    [][\A r \in Runs :
            exc[r].raised =>
                /\ exc'[r] = exc[r]
                /\ ret'[r] = ret[r]
                /\ state'[r] = state[r]
                /\ Len(stack'[r]) <= Len(stack[r])
                /\ Done(r)' => result'[r] = RecursionError(exc[r].parser, exc[r].context)]_vars

\* parse raises although the alternative 'a' matched the whole source
C7_Witness ==
    \E r \in Runs :
        /\ Done(r) /\ result[r].kind = "RecursionError"
        /\ KindOf(r, root[r]) = "longest"
        /\ \E c \in DOMAIN Memo(r) :
                c[1] = "a" /\ c[2] = 0 /\ Memo(r)[c].ok /\ Memo(r)[c].rem = Len(src[r])

----------------------------------------------------------------------------
\* the statuses of the alternatives of the activation of P at position i
Alternatives(r, P) == ParserOf(r, P).parsers
AltStatus(r, P, i, k) == Memo(r)[<<Alternatives(r, P)[k], i>>]

(* C8: longest(p1,...,pn) consumes every alternative at its own reader, in *)
(* order, and returns the success with the greatest remainder, the first   *)
(* listed among equals; it fails iff every alternative fails.              *)
C8_Longest ==
    \A r \in Runs :
        (last[r].ev = "return" /\ KindOf(r, last[r].id) = "longest") =>
            LET P == last[r].id
                i == last[r].pos
                n == Len(Alternatives(r, P))
                cs == CallsBy(r, P, i)
                R == last[r].status
            IN  /\ Len(cs) = n
                /\ \A k \in 1..n : cs[k].id = Alternatives(r, P)[k] /\ cs[k].pos = i
                /\ R.ok <=> \E k \in 1..n : AltStatus(r, P, i, k).ok
                /\ ~R.ok => R = None
                /\ R.ok => \E k \in 1..n :
                        /\ R = AltStatus(r, P, i, k)
                        /\ \A j \in 1..n : AltStatus(r, P, i, j).ok =>
                                AltStatus(r, P, i, j).rem <= R.rem
                        /\ \A j \in 1..(k - 1) : AltStatus(r, P, i, j).ok =>
                                AltStatus(r, P, i, j).rem < R.rem

\* two alternatives succeed with one remainder and two values: the first is returned
C8_Witness ==
    \E r \in Runs :
        /\ last[r].ev = "return" /\ KindOf(r, last[r].id) = "longest"
        /\ \E j, k \in 1..Len(Alternatives(r, last[r].id)) :
                /\ j < k
                /\ AltStatus(r, last[r].id, last[r].pos, j).ok
                /\ AltStatus(r, last[r].id, last[r].pos, k).ok
                /\ AltStatus(r, last[r].id, last[r].pos, j).rem
                        = AltStatus(r, last[r].id, last[r].pos, k).rem
                /\ AltStatus(r, last[r].id, last[r].pos, j).value
                        # AltStatus(r, last[r].id, last[r].pos, k).value
                /\ last[r].status = AltStatus(r, last[r].id, last[r].pos, j)

(* C9: first(p1,...,pn) consumes its alternatives in order up to the first *)
(* success, which it returns; it consumes none after it, and fails iff all *)
(* fail.  first('a', 'ab') on 'ab' fails with 'end of source' at 1.        *)
C9_First ==
    \A r \in Runs :
        /\ (last[r].ev = "return" /\ KindOf(r, last[r].id) = "first") =>
                LET P == last[r].id
                    i == last[r].pos
                    cs == CallsBy(r, P, i)
                    n == Len(cs)
                    R == last[r].status
                IN  /\ n >= 1 /\ n <= Len(Alternatives(r, P))
                    /\ \A k \in 1..n : cs[k].id = Alternatives(r, P)[k] /\ cs[k].pos = i
                    /\ \A k \in 1..(n - 1) : ~StatusOf(r, cs[k]).ok
                    /\ R = StatusOf(r, cs[n])
                    /\ n < Len(Alternatives(r, P)) => R.ok
                    /\ ~R.ok => R = None
        /\ (Done(r) /\ root[r] = "first_a_ab" /\ src[r] = <<"a", "b">>) =>
                /\ result[r] = Failure(1, <<"end of source">>)
                /\ regs[r] = <<<<"end of source", 1>>>>
                /\ \A n \in DOMAIN calls[r] : calls[r][n].id # "ab"

\* first('a', 'ab') on 'ab': 'ab' would match the source and is not tried
C9_Witness ==
    \E r \in Runs :
        /\ Done(r) /\ root[r] = "first_a_ab" /\ src[r] = <<"a", "b">>
        /\ result[r].kind = "Failure"

----------------------------------------------------------------------------
\* (x | y) | z, x | (y | z) and longest(x, y, z), for unnamed x, y and z
OrTriples == {<<"or3_left", "or3_right", "longest3">>, <<"or3f_left", "or3f_right", "longest3f">>}

\* one source parsed by the three parsers of a triple
InitOr == \E s \in Sources, t \in OrTriples : Setup(<<s, s, s>>, t, <<TRUE, TRUE, TRUE>>)

NextOr ==
    \/ \E r \in Runs : ParseStart(r)
    \/ \E r \in Runs : LiteralConsume(r)
    \/ \E r \in Runs : EndOfSourceConsume(r)
    \/ \E r \in Runs : LongestAlternativeConsume(r)
    \/ \E r \in Runs : ConversionConsume(r)
    \/ \E r \in Runs : DiscardRightConsume(r)
    \/ \E r \in Runs : ParseFinish(r)

SpecOr == InitOr /\ [][NextOr]_vars

----------------------------------------------------------------------------
\* the last event of run r is the return of an activation of this kind
Returned(r, kind) == last[r].ev = "return" /\ KindOf(r, last[r].id) = kind

(* C11: p1 & ... & pn consumes p1 at its reader and each next parser at    *)
(* the remainder of the one before; when all succeed it returns the list   *)
(* of their values in order with the last remainder; when one fails it     *)
(* fails and consumes none of the parsers after it.                        *)
C11_Sequence ==
    \A r \in Runs :
        Returned(r, "seq") =>
            LET P == last[r].id
                i == last[r].pos
                ps == ParserOf(r, P).parsers
                cs == CallsBy(r, P, i)
                n == Len(cs)
                R == last[r].status
            IN  /\ n >= 1 /\ n <= Len(ps)
                /\ cs[1].pos = i
                /\ \A k \in 1..n : cs[k].id = ps[k]
                /\ \A k \in 1..(n - 1) :
                        StatusOf(r, cs[k]).ok /\ cs[k + 1].pos = StatusOf(r, cs[k]).rem
                /\ R.ok <=> (n = Len(ps) /\ StatusOf(r, cs[n]).ok)
                /\ R.ok => /\ R.rem = StatusOf(r, cs[n]).rem
                           /\ R.value = ListVal([k \in 1..n |-> StatusOf(r, cs[k]).value])
                /\ ~R.ok => R = None /\ ~StatusOf(r, cs[n]).ok

\* a sequence of three parsers succeeds, each at the remainder of the one before
C11_Witness ==
    \E r \in Runs :
        /\ Returned(r, "seq")
        /\ last[r].status.ok
        /\ Len(CallsBy(r, last[r].id, last[r].pos)) = 3
        /\ last[r].status.rem = last[r].pos + 3

----------------------------------------------------------------------------
(* C12: for unnamed a, b and c that succeed one after the other, (a & b) & c *)
(* and a & (b & c) both return the flat list of the three values.            *)
C12_AndFlat ==
    \A r \in Runs :
        (Done(r) /\ root[r] \in {"seq3", "seq3_right"} /\ src[r] = <<"a", "b", "a">>) =>
            result[r] = Success(ListVal(<<StrVal(<<"a">>), StrVal(<<"b">>), StrVal(<<"a">>)>>))

(* C13: a sequence assigned to a name is not flattened by &: with ab = x & y *)
(* named, ab & z returns [[vx, vy], vz] and z & ab returns [vz, [vx, vy]],   *)
(* while the unnamed chain x & y & z returns [vx, vy, vz].                   *)
C13_Protected ==
    LET va == StrVal(<<"a">>)
        vb == StrVal(<<"b">>)
    IN  /\ objects["named_left"].parsers = <<"named_a_b", "a">>
        /\ objects["named_right"].parsers = <<"a", "named_a_b">>
        /\ objects["seq3"].parsers = <<"a", "b", "a">>
        /\ \A r \in Runs :
            /\ (Done(r) /\ root[r] = "named_left" /\ src[r] = <<"a", "b", "a">>) =>
                    result[r] = Success(ListVal(<<ListVal(<<va, vb>>), va>>))
            /\ (Done(r) /\ root[r] = "named_right" /\ src[r] = <<"a", "a", "b">>) =>
                    result[r] = Success(ListVal(<<va, ListVal(<<va, vb>>)>>))
            /\ (Done(r) /\ root[r] = "seq3" /\ src[r] = <<"a", "b", "a">>) =>
                    result[r] = Success(ListVal(<<va, vb, va>>))

\* the named sequence followed by a parser has parsed 'aba'
C13_Witness ==
    \E r \in Runs :
        /\ Done(r) /\ root[r] = "named_left" /\ src[r] = <<"a", "b", "a">>
        /\ result[r].kind = "Success"

----------------------------------------------------------------------------
\* the status of the parser of opt(p), the root of run r, at the start of the source
OptStatus(r) == Memo(r)[<<ParserOf(r, root[r]).parsers[1], 0>>]

(* C14: opt(p).parse(s) succeeds for every source s, with value [v] if p   *)
(* succeeds on s with value v and with value [] otherwise.                 *)
C14_OptParse ==
    \A r \in Runs :
        (Done(r) /\ KindOf(r, root[r]) = "opt" /\ result[r].kind # "RecursionError") =>
            result[r] = IF OptStatus(r).ok /\ OptStatus(r).rem = Len(src[r])
                        THEN Success(ListVal(<<OptStatus(r).value>>))
                        ELSE Success(ListVal(<<>>))

(* C14, amended: opt(p) consumed at a reader always succeeds, with [v] and *)
(* p's remainder if p succeeds there with v, and with [] and the reader    *)
(* itself otherwise.  opt(p).parse(s) is Success([v]) when p succeeds with *)
(* v and takes all of s, Success([]) when p fails and s is empty, and a    *)
(* Failure for every other source on which p raises no RecursionError.     *)
C14_OptConsume ==
    \A r \in Runs :
        /\ Returned(r, "opt") =>
                LET cs == CallsBy(r, last[r].id, last[r].pos)
                    R == last[r].status
                IN  /\ Len(cs) = 1
                    /\ cs[1].id = ParserOf(r, last[r].id).parsers[1]
                    /\ cs[1].pos = last[r].pos
                    /\ R = IF StatusOf(r, cs[1]).ok
                           THEN Continue(StatusOf(r, cs[1]).rem,
                                         ListVal(<<StatusOf(r, cs[1]).value>>))
                           ELSE Continue(last[r].pos, ListVal(<<>>))
        /\ (Done(r) /\ KindOf(r, root[r]) = "opt" /\ result[r].kind # "RecursionError") =>
                IF OptStatus(r).ok /\ OptStatus(r).rem = Len(src[r])
                THEN result[r] = Success(ListVal(<<OptStatus(r).value>>))
                ELSE IF ~OptStatus(r).ok /\ src[r] = <<>>
                     THEN result[r] = Success(ListVal(<<>>))
                     ELSE result[r].kind = "Failure"

\* opt('a') on 'b': opt succeeds with [] at 0, and parse fails at the end of source
C14_Witness ==
    \E r \in Runs :
        /\ Done(r) /\ root[r] = "opt_a" /\ src[r] = <<"b">>
        /\ Memo(r)[<<"opt_a", 0>>] = Continue(0, ListVal(<<>>))
        /\ result[r] = Failure(0, <<"'a'", "end of source">>)

----------------------------------------------------------------------------
\* the values of the first n calls of a sequence of calls
ValuesOf(r, cs, n) == [k \in 1..n |-> StatusOf(r, cs[k]).value]

(* C15: rep(p, min=n, max=m) fails or returns a list of at least n and,    *)
(* when m is given, at most m values; it consumes p no more once the list  *)
(* has m values.                                                           *)
C15_RepBounds ==
    \A r \in Runs :
        Returned(r, "rep") =>
            LET p == ParserOf(r, last[r].id)
                cs == CallsBy(r, last[r].id, last[r].pos)
                good == {k \in 1..Len(cs) : StatusOf(r, cs[k]).ok}
                n == Cardinality(good)
                R == last[r].status
            IN  /\ \A k \in 1..(Len(cs) - 1) : k \in good
                /\ R.ok => /\ R.value = ListVal(ValuesOf(r, cs, n))
                           /\ n >= p.min
                           /\ p.max # NoMax => n <= p.max
                /\ ~R.ok => n < p.min
                /\ p.max # NoMax => Len(cs) <= p.max

\* rep('a', min=1, max=2) stops after two values with an 'a' left in the source
C15_Witness ==
    \E r \in Runs :
        /\ Returned(r, "rep")
        /\ last[r].id = "rep_a_min1_max2"
        /\ src[r] = <<"a", "a", "a">>
        /\ last[r].status = Continue(2, ListVal(<<StrVal(<<"a">>), StrVal(<<"a">>)>>))
        /\ Len(CallsBy(r, last[r].id, last[r].pos)) = 2

----------------------------------------------------------------------------
\* the calls of a separated repetition that consume its parser: the first
\* call and every second call after it
ParserCalls(cs) == {k \in 1..Len(cs) : k % 2 = 1}

(* C16: repsep(p, sep, min=n, max=m) fails or returns a list of at least n *)
(* and, when m is given, at most m values, for m = 0 as for every other m. *)
C16_RepsepBounds ==
    \A r \in Runs :
        (Returned(r, "repsep") /\ last[r].status.ok) =>
            LET p == ParserOf(r, last[r].id)
                cs == CallsBy(r, last[r].id, last[r].pos)
                n == Cardinality({k \in ParserCalls(cs) : StatusOf(r, cs[k]).ok})
            IN  /\ n >= p.min
                /\ p.max # NoMax => n <= p.max

----------------------------------------------------------------------------
\* <<root of run 1, root of run 2, the rep1(p) of run 1, the rep(p, min=1) of run 2>>
Rep1Pairs ==
    {<<"rep1_a", "rep_a_min1", "rep1_a", "rep_a_min1">>,
     <<"rep1_seq", "rep_seq_min1", "rep1_seq", "rep_seq_min1">>,
     <<"rep1_opt_a", "rep_opt_a_min1", "rep1_opt_a", "rep_opt_a_min1">>,
     <<"rep1_a_or_b", "rep_a_or_b_min1", "rep1_a_or_b", "rep_a_or_b_min1">>,
     <<"dl_b_rep1", "dl_b_rep", "rep1_a", "rep_a_min1">>,
     <<"dl_a_rep1opt", "dl_a_repopt", "rep1_opt_a", "rep_opt_a_min1">>}

\* one source parsed through rep1(p) and through rep(p, min=1)
InitRep1 == \E s \in Sources, t \in Rep1Pairs : Setup(<<s, s>>, <<t[1], t[2]>>, <<TRUE, TRUE>>)

NextRep1 ==
    \/ \E r \in Runs : ParseStart(r)
    \/ \E r \in Runs : LiteralConsume(r)
    \/ \E r \in Runs : EndOfSourceConsume(r)
    \/ \E r \in Runs : OptionalConsume(r)
    \/ \E r \in Runs : LongestAlternativeConsume(r)
    \/ \E r \in Runs : SequentialConsume(r)
    \/ \E r \in Runs : DiscardLeftConsume(r)
    \/ \E r \in Runs : DiscardRightConsume(r)
    \/ \E r \in Runs : RepeatedOnceConsume(r)
    \/ \E r \in Runs : RepeatedConsume(r)
    \/ \E r \in Runs : Unwind(r)
    \/ \E r \in Runs : ParseRaise(r)
    \/ \E r \in Runs : ParseFinish(r)

SpecRep1 == InitRep1 /\ [][NextRep1]_vars

\* the positions at which run r has consumed the parser id
ConsumedAt(r, id) == {i \in 0..Len(src[r]) : <<id, i>> \in DOMAIN Memo(r)}

(* C17: rep1(p) and rep(p, min=1) have one outcome at every reader: both   *)
(* fail, or both succeed with one value and one remainder, or both raise   *)
(* RecursionError with the context at one position; and they leave one     *)
(* farthest and one expected in the State.                                 *)
C17_Rep1IsRepMin1 ==
    (Done(1) /\ Done(2)) =>
        \E t \in Rep1Pairs :
            /\ root = <<t[1], t[2]>>
            /\ ConsumedAt(1, t[3]) = ConsumedAt(2, t[4])
            /\ \A i \in ConsumedAt(1, t[3]) : Memo(1)[<<t[3], i>>] = Memo(2)[<<t[4], i>>]
            /\ result[1].kind = result[2].kind
            /\ result[1].value = result[2].value
            /\ result[1].context = result[2].context
            /\ result[1].kind = "RecursionError" =>
                    result[1].parser = t[3] /\ result[2].parser = t[4]
            /\ result[1].farthest = result[2].farthest
            /\ result[1].expected = result[2].expected
            /\ state[1].farthest = state[2].farthest
            /\ state[1].expected = state[2].expected

\* opt('a') takes nothing of 'b': rep1 consumes it a second time before it
\* raises, rep(min=1) raises after the first, both with the reader at 0
C17_Witness ==
    /\ Done(1) /\ Done(2)
    /\ root = <<"rep1_opt_a", "rep_opt_a_min1">>
    /\ src[1] = <<"b">>
    /\ result[1].kind = "RecursionError" /\ result[1].context = 0
    /\ result[2].kind = "RecursionError" /\ result[2].context = 0
    /\ Len(calls[1]) > Len(calls[2])

----------------------------------------------------------------------------
\* the sources of the example: '1,2,3', '1,2,' and every short string of
\* digits and commas, the empty one included
NumberChars == {"1", "2", "3", ","}
NumberSources ==
    UNION {[1..n -> NumberChars] : n \in 0..MaxLen}
        \cup {<<"1", ",", "2", ",", "3">>, <<"1", ",", "2", ",">>}

\* rep1sep(number, ',').parse(s), with number = reg(r'\d+') > f
InitNumbers == \E s \in NumberSources : Setup(<<s>>, <<"rep1sep_number">>, <<TRUE>>)

NextNumbers ==
    \/ \E r \in Runs : ParseStart(r)
    \/ \E r \in Runs : LiteralConsume(r)
    \/ \E r \in Runs : RegexConsume(r)
    \/ \E r \in Runs : EndOfSourceConsume(r)
    \/ \E r \in Runs : ConversionConsume(r)
    \/ \E r \in Runs : DiscardRightConsume(r)
    \/ \E r \in Runs : RepeatedOnceSeparatedConsume(r)
    \/ \E r \in Runs : ParseFinish(r)

SpecNumbers == InitNumbers /\ [][NextNumbers]_vars

\* the value of number for a string of digits: the converter applied to it
Number(digits) == Converted(StrVal(digits))

(* C18: with number a digits regex converted to int, rep1sep(number, ',')  *)
(* parses '1,2,3' to Success([1, 2, 3]) and '1,2,' to Success([1, 2]),     *)
(* the trailing separator not being consumed, and fails on ''.             *)
C18_Rep1sepExample ==
    \A r \in Runs :
        Done(r) =>
            /\ src[r] = <<"1", ",", "2", ",", "3">> =>
                    result[r] = Success(ListVal(<<Number(<<"1">>), Number(<<"2">>), Number(<<"3">>)>>))
            /\ src[r] = <<"1", ",", "2", ",">> =>
                    result[r] = Success(ListVal(<<Number(<<"1">>), Number(<<"2">>)>>))
            /\ src[r] = <<>> => result[r].kind = "Failure"

(* C18, amended: '1,2,3' parses to Success([1, 2, 3]) and '' fails with    *)
(* the regex expected at 0.  On '1,2,' rep1sep itself succeeds with [1, 2] *)
(* and a remainder at 3, before the trailing separator, so that parse,     *)
(* which wants the end of the source there, returns the Failure of the     *)
(* farthest position, 4, where the regex was expected.                     *)
C18_Rep1sepTrailing ==
    \A r \in Runs :
        Done(r) =>
            /\ src[r] = <<"1", ",", "2", ",", "3">> =>
                    result[r] = Success(ListVal(<<Number(<<"1">>), Number(<<"2">>), Number(<<"3">>)>>))
            /\ src[r] = <<"1", ",", "2", ",">> =>
                    /\ Memo(r)[<<"rep1sep_number", 0>>] =
                            Continue(3, ListVal(<<Number(<<"1">>), Number(<<"2">>)>>))
                    /\ result[r] = Failure(4, <<"r'\\d+'">>)
            /\ src[r] = <<>> => result[r] = Failure(0, <<"r'\\d+'">>)

\* '1,2,' has been parsed: the separator at 3 matched and the number at 4 did not
C18_Witness ==
    \E r \in Runs :
        /\ Done(r) /\ src[r] = <<"1", ",", "2", ",">>
        /\ Memo(r)[<<"comma", 3>>].ok
        /\ ~Memo(r)[<<"number", 4>>].ok
        /\ result[r].kind = "Failure"

----------------------------------------------------------------------------
\* run r takes the step in which an activation of this kind returns
Returns(r, kind) ==
    /\ At(r, kind)
    /\ last'[r].ev = "return"
    /\ last'[r].id = Top(r).id
    /\ last'[r].pos = Top(r).pos

----------------------------------------------------------------------------
(* C20: until(p) at position s consumes p at s, s + 1, ... and succeeds at *)
(* the least position k <= len(source) where p succeeds, with the value    *)
(* source[s:k] and the remainder at k, before the match of p; it fails,    *)
(* with the failure of p, iff p fails at every position from s through the *)
(* end of the source; and it makes at most len(source) - s + 1 attempts.   *)
C20_Until ==
    \A r \in Runs :
        /\ Returned(r, "until") =>
                LET s == last[r].pos
                    cs == CallsBy(r, last[r].id, s)
                    n == Len(cs)
                    k == s + n - 1
                    R == last[r].status
                IN  /\ n >= 1 /\ k <= Len(src[r])
                    /\ \A j \in 1..n :
                            /\ cs[j].id = ParserOf(r, last[r].id).parsers[1]
                            /\ cs[j].pos = s + j - 1
                    /\ \A j \in 1..(n - 1) : ~StatusOf(r, cs[j]).ok
                    /\ R.ok <=> StatusOf(r, cs[n]).ok
                    /\ R.ok => R = Continue(k, StrVal(SubSeq(src[r], s + 1, k)))
                    /\ ~R.ok => k = Len(src[r]) /\ R = StatusOf(r, cs[n])
        /\ \A d \in DOMAIN stack[r] :
                KindOf(r, stack[r][d].id) = "until" =>
                    /\ stack[r][d].rem <= Len(src[r])
                    /\ Len(CallsBy(r, stack[r][d].id, stack[r][d].pos))
                            <= stack[r][d].rem - stack[r][d].pos + 1

\* until('b') on 'aab...': two failures of 'b', then its success at 2, which
\* is left in the source
C20_Witness ==
    \E r \in Runs :
        /\ Returned(r, "until")
        /\ last[r].id = "until_b" /\ last[r].pos = 0
        /\ last[r].status = Continue(2, StrVal(<<"a", "a">>))
        /\ Memo(r)[<<"b", 2>>] = Continue(3, StrVal(<<"b">>))

----------------------------------------------------------------------------
\* text with blanks: every short string of a, b and the blank, and the
\* sources of the example
TextChars == {"a", "b", " "}
TextSources ==
    UNION {[1..n -> TextChars] : n \in 0..MaxLen}
        \cup {<<"H", "e", "l", "l", "o", " ", "D", "a", "v", "i", "d">>,
              <<"H", "e", "l", "l", "o", " ", "w", "o", "r", "l", "d">>,
              <<"H", "e", "l", "l", "o">>}

\* the terminals built with the whitespace r'[ ]*', and sequences of them
TextRoots ==
    {"hello", "world", "ws_a", "ws_b", "ws_a_plus", "hello_world", "ws_a_b", "a_ws_b",
     "b_ws_a_plus", "heredoc"}

InitText == \E s \in TextSources, p \in TextRoots : Setup(<<s>>, <<p>>, <<TRUE>>)

NextText ==
    \/ \E r \in Runs : ParseStart(r)
    \/ \E r \in Runs : LiteralConsume(r)
    \/ \E r \in Runs : RegexConsume(r)
    \/ \E r \in Runs : EndOfSourceConsume(r)
    \/ \E r \in Runs : SequentialConsume(r)
    \/ \E r \in Runs : DiscardRightConsume(r)
    \/ \E r \in Runs : TransformationConsume(r)
    \/ \E r \in Runs : ParseFinish(r)

SpecText == InitText /\ [][NextText]_vars

\* the first position from i on that holds no character of the class
SkipFrom(source, class, i) ==
    CHOOSE j \in i..Len(source) :
        /\ \A k \in (i + 1)..j : source[k] \in class
        /\ j = Len(source) \/ source[j + 1] \notin class

\* where the pattern of a terminal ends if it matches at position i, else -1
PatternEnd(source, p, i) ==
    IF p.kind = "lit"
    THEN IF startswith(source, p.pattern, i) THEN i + Len(p.pattern) ELSE -1
    ELSE IF SkipFrom(source, p.accept, i) - i >= p.min
         THEN SkipFrom(source, p.accept, i) ELSE -1

(* C21: a literal or regex terminal with whitespace w, applied at r,       *)
(* consumes w at r, matches its pattern where the whitespace ends and      *)
(* consumes w again after the pattern; its remainder is behind the         *)
(* trailing whitespace and its value is the match without whitespace; on a *)
(* mismatch it registers its description where the leading whitespace      *)
(* ends, not at r.  hello & world with w = '[ ]*' fails on 'Hello David'   *)
(* with 'world' at position 6.                                             *)
C21_Whitespace ==
    \A r \in Runs :
        /\ (Returned(r, "lit") \/ Returned(r, "reg")) /\ ParserOf(r, last[r].id).whitespace # NoWhitespace =>
                LET p == ParserOf(r, last[r].id)
                    blank == ParserOf(r, p.whitespace).accept
                    cs == CallsBy(r, last[r].id, last[r].pos)
                    from == SkipFrom(src[r], blank, last[r].pos)
                    to == PatternEnd(src[r], p, from)
                    R == last[r].status
                IN  /\ cs[1].id = p.whitespace /\ cs[1].pos = last[r].pos
                    /\ IF to = -1
                       THEN /\ Len(cs) = 1
                            /\ R = None
                            /\ regs[r][Len(regs[r])] = <<p.text, from>>
                       ELSE /\ Len(cs) = 2
                            /\ cs[2].id = p.whitespace /\ cs[2].pos = to
                            /\ R = Continue(SkipFrom(src[r], blank, to),
                                            StrVal(SubSeq(src[r], from + 1, to)))
        /\ Done(r) /\ root[r] = "hello_world"
                   /\ src[r] = <<"H", "e", "l", "l", "o", " ", "D", "a", "v", "i", "d">>
                => result[r] = Failure(6, <<"'world'">>)

\* 'a' & 'b' on 'a a': 'b', built with whitespace, is applied at 1 and
\* registers its failure at 2, behind the blank
C21_Witness ==
    \E r \in Runs :
        /\ Returned(r, "lit") /\ last[r].id = "ws_b" /\ last[r].pos = 1
        /\ root[r] = "a_ws_b"
        /\ src[r] = <<"a", " ", "a">>
        /\ last[r].status = None
        /\ regs[r][Len(regs[r])] = <<"'b'", 2>>

----------------------------------------------------------------------------
\* two parse calls on one grammar in two threads, and then the same two
\* calls again, one after the other
ThreadRoots == {"expr", "rep_a_or_b", "seq_a_b"}
ThreadSources == {<<>>, <<"a">>, <<"a", "a">>, <<"a", "b">>, <<"b", "a">>}

InitThreads ==
    \E s1 \in ThreadSources, s2 \in ThreadSources, p1 \in ThreadRoots, p2 \in ThreadRoots :
        /\ objects = Grammar
        /\ threads = {1, 2}
        /\ options = DefaultOptions
        /\ dicts = <<>>
        /\ closed = <<>>
        /\ made = <<>>
        /\ src = <<s1, s2, s1, s2>>
        /\ root = <<p1, p2, p1, p2>>
        /\ memoized = <<TRUE, TRUE, TRUE, TRUE>>
        /\ phase = [r \in 1..4 |-> "ready"]
        /\ state = [r \in 1..4 |-> NewState]
        /\ stack = [r \in 1..4 |-> <<>>]
        /\ ret = [r \in 1..4 |-> None]
        /\ exc = [r \in 1..4 |-> NoExc]
        /\ result = [r \in 1..4 |-> NoResult]
        /\ message = [r \in 1..4 |-> NoMessage]
        /\ regs = [r \in 1..4 |-> <<>>]
        /\ calls = [r \in 1..4 |-> <<>>]
        /\ last = [r \in 1..4 |-> [ev |-> "none", id |-> "", pos |-> 0, status |-> None]]

NextThreads ==
    \/ \E r \in Runs : ParseStart(r)
    \/ \E r \in Runs : LiteralConsume(r)
    \/ \E r \in Runs : EndOfSourceConsume(r)
    \/ \E r \in Runs : LongestAlternativeConsume(r)
    \/ \E r \in Runs : SequentialConsume(r)
    \/ \E r \in Runs : DiscardRightConsume(r)
    \/ \E r \in Runs : RepeatedConsume(r)
    \/ \E r \in Runs : ParseFinish(r)

SpecThreads == InitThreads /\ [][NextThreads]_vars

\* the State of a run, as parse leaves it
Outcome(r) == <<result[r], state[r].farthest, state[r].expected, state[r].memo>>

(* C22: two parse calls on one grammar, their consume steps interleaved in *)
(* any order, each with its own State and Reader, return the results, and  *)
(* leave the farthest, expected and memo, of the same calls made alone;    *)
(* and no parser object is modified while they parse.                      *)
C22_Threads ==
    /\ objects = Grammar
    /\ (\A r \in Runs : Done(r)) => Outcome(1) = Outcome(3) /\ Outcome(2) = Outcome(4)

\* both threads are in the middle of their parse, each has consumed the
\* parser object 'a' at 0, and their memos hold different statuses for it
C22_Witness ==
    /\ phase[1] = "running" /\ phase[2] = "running"
    /\ Len(stack[1]) > 1 /\ Len(stack[2]) > 1
    /\ <<"a", 0>> \in DOMAIN Memo(1) /\ <<"a", 0>> \in DOMAIN Memo(2)
    /\ Memo(1)[<<"a", 0>>] = Continue(1, StrVal(<<"a">>))
    /\ Memo(2)[<<"a", 0>>] = None
    /\ last[2].ev = "return" /\ last[2].id = "a"

----------------------------------------------------------------------------
\* a program of class statements, lit calls and one parse call, of the
\* parser heredoc = reg(r'a+') >= (lambda t: lit('b')) of a grammar with the
\* whitespace r'[ ]*', in any order
HeredocSources == {<<"a", "b", " ">>}

InitBinding == \E s \in HeredocSources : Setup(<<s>>, <<"heredoc">>, <<TRUE>>)

\* the statements of class bodies, nested or one after the other
NextBinding ==
    \/ \E w \in WhitespaceArgs : Prepare(w)
    \/ Lit
    \/ \E key \in Names : Missing(key)
    \/ \E key \in Names, value \in Constructed \cup {BareLiteral} : SetItem(key, value)
    \/ MetaInit

SpecBinding == InitBinding /\ [][NextBinding]_vars

\* class statements whose bodies read a name and may bind it to a str, and
\* heredoc.parse('ab ') before, within or after them
NextHeredoc ==
    \/ \E w \in WhitespaceArgs : Prepare(w)
    \/ \E key \in Names : Missing(key)
    \/ \E key \in Names : SetItem(key, BareLiteral)
    \/ MetaInit
    \/ \E r \in Runs : ParseStart(r)
    \/ \E r \in Runs : LiteralConsume(r)
    \/ \E r \in Runs : RegexConsume(r)
    \/ \E r \in Runs : EndOfSourceConsume(r)
    \/ \E r \in Runs : DiscardRightConsume(r)
    \/ \E r \in Runs : TransformationConsume(r)
    \/ \E r \in Runs : ParseFinish(r)

SpecHeredoc == InitBinding /\ [][NextHeredoc]_vars

\* the definition of a forward declaration: <<>> is None
Definition(forward_declaration) == objects[forward_declaration].parsers

(* C23: when a class statement ends, every forward declaration its body    *)
(* created is resolved to the parser last assigned to its name in that     *)
(* body; if the body has assigned nothing to the name, the statement       *)
(* raises an error: it never ends with a forward declaration left          *)
(* unresolved or defined as itself.                                        *)
C23_ForwardsResolved ==
    \A i \in DOMAIN closed :
        \A j \in DOMAIN closed[i].forward_declarations :
            LET name == closed[i].forward_declarations[j][1]
                forward_declaration == closed[i].forward_declarations[j][2]
                items == closed[i].items
            IN  /\ name \in DOMAIN items /\ items[name] \in DOMAIN objects =>
                        /\ ~closed[i].raised
                        /\ Definition(forward_declaration) = <<items[name]>>
                /\ name \notin DOMAIN items => closed[i].raised
                /\ ~closed[i].raised =>
                        Definition(forward_declaration) \notin {<<>>, <<forward_declaration>>}

\* the part of C23 that holds: a name that has been assigned a parser
C23_AssignedResolved ==
    \A i \in DOMAIN closed :
        \A j \in DOMAIN closed[i].forward_declarations :
            LET name == closed[i].forward_declarations[j][1]
                forward_declaration == closed[i].forward_declarations[j][2]
                items == closed[i].items
            IN  name \in DOMAIN items /\ items[name] \in DOMAIN objects =>
                    /\ ~closed[i].raised
                    /\ Definition(forward_declaration) = <<items[name]>>

(* C24: a class statement installs its whitespace in the options at its    *)
(* start and restores the whitespace, handle_literal and parse_method of   *)
(* before at its end; nested statements restore in LIFO order: the options *)
(* hold the whitespace of the innermost class body that is executing, and  *)
(* a literal constructed in a class body has the whitespace of that body.  *)
C24_Restores ==
    /\ \A i \in DOMAIN closed : closed[i].after = closed[i].before
    /\ options.whitespace = Scope
    /\ \A i \in DOMAIN made :
            made[i].by = "body" /\ made[i].open => objects[made[i].id].whitespace = made[i].scope

\* the part of C24 that holds: the class statements that end without raising
C24_RestoresUnlessRaised ==
    /\ \A i \in DOMAIN closed : ~closed[i].raised => closed[i].after = closed[i].before
    /\ (\A i \in DOMAIN closed : ~closed[i].raised) =>
            /\ options.whitespace = Scope
            /\ \A i \in DOMAIN made :
                    made[i].by = "body" /\ made[i].open =>
                        objects[made[i].id].whitespace = made[i].scope

(* C30: a literal has the whitespace that options.whitespace held when it  *)
(* was constructed; one constructed during a parse by a >= function gets   *)
(* the whitespace in effect at parse time, None when no class body is      *)
(* executing, not the whitespace of the grammar that holds the >=: heredoc *)
(* then leaves the trailing blank of 'ab ' unconsumed.                     *)
C30_ParseTimeWhitespace ==
    /\ \A i \in DOMAIN made :
            /\ objects[made[i].id].whitespace = made[i].whitespace
            /\ made[i].by = "parse" =>
                    objects[made[i].id].whitespace = (IF made[i].open THEN made[i].scope
                                                      ELSE NoWhitespace)
    /\ \A r \in Runs :
            Done(r) /\ root[r] = "heredoc" /\ src[r] = <<"a", "b", " ">>
                    /\ (\E i \in DOMAIN made : made[i].by = "parse" /\ ~made[i].open)
                => result[r] = Failure(2, <<"end of source">>)

\* the part of C30 that holds: the whitespace of a literal is the value of
\* options.whitespace at its construction
C30_ConstructionWhitespace ==
    \A i \in DOMAIN made : objects[made[i].id].whitespace = made[i].whitespace

----------------------------------------------------------------------------
(* The memo *)

\* the step is a consume call of run r, and what it led to
ConsumeStep(r, ev) == calls'[r] # calls[r] /\ last'[r].ev = ev /\ last'[r].id # "parse"

\* the register_failure calls of run r in the step
Registered(r) == SubSeq(regs'[r], Len(regs[r]) + 1, Len(regs'[r]))

\* C26: within one memoized parse, _consume of a parser P is invoked at a
\* position i only when (P, i) is not in the memo, and from then on (P, i)
\* stays in the memo, so that it is invoked at most once; a consume call
\* whose key is in the memo returns the stored outcome and leaves farthest,
\* expected and memo as they were.
C26_ConsumeOnce ==
    [][\A r \in Runs :
          LET key == <<last'[r].id, last'[r].pos>>
              st == RegisterAll(state[r], Registered(r))
          IN  /\ DOMAIN Memo(r) \subseteq DOMAIN state'[r].memo
              /\ memoized[r] /\ ConsumeStep(r, "call") =>
                    /\ key \notin DOMAIN Memo(r)
                    /\ key \in DOMAIN state'[r].memo
                    /\ Len(stack'[r]) = Len(stack[r]) + 1
              /\ memoized[r] /\ ConsumeStep(r, "hit") =>
                    /\ key \in DOMAIN Memo(r)
                    /\ ret'[r] = Memo(r)[key]
                    /\ Len(stack'[r]) = Len(stack[r])
                    /\ state'[r] = st
                    /\ state'[r].memo = Memo(r)
                    /\ Registered(r) = <<>> =>
                          /\ state'[r].farthest = state[r].farthest
                          /\ state'[r].expected = state[r].expected
    ]_vars

\* a consume call has returned the Continue that the memo held
C26_Witness ==
    \E r \in Runs :
        /\ memoized[r]
        /\ last[r].ev = "hit"
        /\ last[r].status # None
        /\ last[r].status.ok
        /\ ret[r] = last[r].status
        /\ Memo(r)[<<last[r].id, last[r].pos>>] = last[r].status

\* the interpreter never stops a run: a run that can take a step takes one
SpecFair == Spec /\ WF_vars(Next)

\* the _consume of the parser at the position is in progress in run r
InProgress(r, id, position) ==
    \E k \in 1..Len(stack[r]) : stack[r][k].id = id /\ stack[r][k].pos = position

\* parse has returned Success or Failure, or has raised RecursionError
Terminated(r) ==
    /\ phase[r] = "done"
    /\ stack[r] = <<>>
    /\ result[r].kind \in {"Success", "Failure", "RecursionError"}

\* C27: a memoized parse by a parser of the grammar, whose parsers are
\* fixed, ends on every source: it returns Success or Failure or raises
\* RecursionError, also when the grammar is left-recursive; and a consume of
\* (P, i) while the _consume of P at i is in progress returns failure at once.
C27_Terminates ==
    /\ [][\A r \in Runs :
            (memoized[r] /\ calls'[r] # calls[r] /\ phase[r] = "running"
                /\ InProgress(r, last'[r].id, last'[r].pos)) =>
                    /\ last'[r].ev = "hit"
                    /\ ret'[r] = None
                    /\ Len(stack'[r]) = Len(stack[r])
       ]_vars
    /\ <>(\A r \in Runs : made = <<>> => Terminated(r))

\* a left-recursive parser has consumed itself at the position of its own
\* _consume, and got a failure
C27_Witness ==
    \E r \in Runs :
        /\ memoized[r]
        /\ last[r].ev = "hit"
        /\ last[r].status = None
        /\ InProgress(r, last[r].id, last[r].pos)
        /\ ret[r] = None

\* C28: whenever consume at a position i of the source returns a Continue,
\* its remainder is at a position j of the same source with i <= j <=
\* len(source), and every register_failure of the parse is at a position
\* that is at most len(source).
C28_Positions ==
    \A r \in Runs :
        /\ \A key \in DOMAIN Memo(r) :
              /\ key[2] \in 0..Len(src[r])
              /\ Memo(r)[key].ok =>
                    /\ key[2] <= Memo(r)[key].rem
                    /\ Memo(r)[key].rem <= Len(src[r])
        /\ (last[r].ev \in {"return", "hit"} /\ last[r].status.ok) =>
              /\ last[r].pos <= last[r].status.rem
              /\ last[r].status.rem <= Len(src[r])
        /\ \A k \in 1..Len(regs[r]) : regs[r][k][2] \in 0..Len(src[r])

\* a consume has returned a Continue at the end of the source that it
\* entered before the end, after a failure was registered at the end
C28_Witness ==
    \E r \in Runs :
        /\ last[r].ev = "return"
        /\ last[r].status.ok
        /\ last[r].pos < last[r].status.rem
        /\ last[r].status.rem = Len(src[r])
        /\ \E k \in 1..Len(regs[r]) : regs[r][k][2] = Len(src[r])

----------------------------------------------------------------------------
(* The separator before a parser that fails *)

\* the least number of values of a separated repetition
MinOf(p) == IF p.kind = "rep1sep" THEN 1 ELSE p.min

\* the activation of a separated repetition has returned in run r, after its
\* last separator succeeded and the parser after it failed
SeparatorThenFailure(r) ==
    /\ memoized[r]
    /\ last[r].ev = "return"
    /\ KindOf(r, last[r].id) \in Separated
    /\ LET cs == CallsBy(r, last[r].id, last[r].pos)
           n == Len(cs)
       IN  /\ n >= 3 /\ n % 2 = 1
           /\ \A k \in 1..(n - 1) : StatusOf(r, cs[k]).ok
           /\ ~StatusOf(r, cs[n]).ok

\* the values of the parser in the calls of the activation, but the last
Accumulated(r) ==
    LET cs == CallsBy(r, last[r].id, last[r].pos)
    IN  [k \in 1..((Len(cs) - 1) \div 2) |-> StatusOf(r, cs[2 * k - 1]).value]

\* the activation returned the accumulated values, from before the separator
Rewound(r) ==
    LET cs == CallsBy(r, last[r].id, last[r].pos)
        n == Len(cs)
    IN  /\ last[r].status.ok
        /\ last[r].status.value = ListVal(Accumulated(r))
        /\ last[r].status.rem = cs[n - 1].pos
        /\ last[r].status.rem = StatusOf(r, cs[n - 2]).rem

\* no register_failure of the run was withdrawn, and that of a literal that
\* failed as the last parser of the activation is one of them
FailuresRemain(r) ==
    LET cs == CallsBy(r, last[r].id, last[r].pos)
        c == cs[Len(cs)]
        st == RegisterAll(NewState, regs[r])
    IN  /\ state[r].farthest = st.farthest
        /\ state[r].expected = st.expected
        /\ state[r].farthest >= c.pos
        /\ KindOf(r, c.id) = "lit" =>
              /\ \E k \in 1..Len(regs[r]) : regs[r][k] = <<ParserOf(r, c.id).text, c.pos>>
              /\ state[r].farthest = c.pos =>
                    \E k \in 1..Len(state[r].expected) :
                        state[r].expected[k] = ParserOf(r, c.id).text

\* C29: in repsep and rep1sep, when the separator succeeds and the parser
\* after it fails, the combinator succeeds with the values accumulated so
\* far and a remainder at the position before that separator, and the
\* failures that the failed parser registered remain in the State.
C29_Succeeds ==
    \A r \in Runs : SeparatorThenFailure(r) => Rewound(r) /\ FailuresRemain(r)

\* C29, amended: the combinator then returns the accumulated values with a
\* remainder at the position before that separator if they are at least min
\* values (one for rep1sep), and fails if they are fewer; in both cases the
\* failures that the failed parser registered remain in the State.
C29_RewindsSeparator ==
    \A r \in Runs :
        SeparatorThenFailure(r) =>
            /\ IF Len(Accumulated(r)) >= MinOf(ParserOf(r, last[r].id))
               THEN Rewound(r)
               ELSE last[r].status = None
            /\ FailuresRemain(r)

\* repsep(lit('a'), lit('b')) has returned ['a'] at 1 on a source that
\* starts with 'ab' and has no 'a' at 2
C29_Witness ==
    \E r \in Runs :
        /\ SeparatorThenFailure(r)
        /\ last[r].id = "repsep_a_b"
        /\ last[r].status = Continue(1, ListVal(<<StrVal(<<"a">>)>>))
        /\ \E k \in 1..Len(regs[r]) : regs[r][k] = <<"'a'", 2>>

----------------------------------------------------------------------------
(* The message of a ParseError *)

ErrorChars == {"a", " ", "\n"}
ErrorSources == UNION {[1..n -> ErrorChars] : n \in 0..MaxLen}
ErrorExpected == {<<"'b'">>, <<"'b'", "'c'">>}

\* ParseError(StringReader(source, position), expected), as parse returned it
InitError ==
    \E s \in ErrorSources, e \in ErrorExpected : \E i \in 0..Len(s) :
        /\ objects = Grammar
        /\ threads = {}
        /\ options = DefaultOptions
        /\ dicts = <<>>
        /\ closed = <<>>
        /\ made = <<>>
        /\ src = <<s>>
        /\ root = <<"a">>
        /\ memoized = <<TRUE>>
        /\ phase = <<"done">>
        /\ state = <<NewState>>
        /\ stack = << <<>> >>
        /\ ret = <<None>>
        /\ exc = <<NoExc>>
        /\ result = <<Failure(i, e)>>
        /\ message = <<NoMessage>>
        /\ regs = << <<>> >>
        /\ calls = << <<>> >>
        /\ last = <<[ev |-> "none", id |-> "", pos |-> 0, status |-> None]>>

NextError == \E r \in Runs : Str(r)

SpecError == InitError /\ [][NextError]_vars

\* the number of the line that holds position i, and where that line starts
LineOf(source, i) == 1 + Cardinality({k \in 1..i : source[k] = "\n"})
LineStart(source, i) ==
    IF \E k \in 1..i : source[k] = "\n"
    THEN CHOOSE k \in 1..i : source[k] = "\n" /\ \A j \in (k + 1)..i : source[j] # "\n"
    ELSE 0

Located(r) ==
    LET s == src[r]
        i == result[r].farthest
        column == i - LineStart(s, i) + 1
        m == message[r]
    IN  /\ m.located
        /\ m.line_index = LineOf(s, i)
        /\ m.character_index = column
        /\ Len(m.pointer) >= column
        /\ m.pointer[column] = "^"
        /\ \A k \in 1..Len(m.pointer) : k # column => m.pointer[k] = " "
        /\ \A k \in 1..Len(m.line) :
              LineStart(s, i) + k <= Len(s) => m.line[k] = s[LineStart(s, i) + k]

\* C25: the message of a ParseError over a StringReader holds the 1-based
\* line and column of the farthest position, the source line, and a pointer
\* line with its caret in that column -- also when the farthest position is
\* the end of the source ('a a' at 3: Line 1, character 4, caret in column 4).
C25_Located ==
    \A r \in Runs : message[r] # NoMessage => Located(r)

\* the part of C25 that holds: a position before the end of the source
C25_LocatedUnlessFinished ==
    \A r \in Runs :
        message[r] # NoMessage =>
            IF result[r].farthest < Len(src[r])
            THEN Located(r)
            ELSE ~message[r].located /\ message[r].found = <<"end of source">>

====
